---- MODULE Spec2Model ----
(***************************************************************************)
(* Model of k8s-resource-adjustment:                                       *)
(*   - the manifest patcher (internal/k8s/k8s.go): getKind, the            *)
(*     extractorMap dispatch table, the typed decode / encode of a         *)
(*     manifest and DefaultK8sResourcePatcher.Patch;                       *)
(*   - the configuration loader (internal/config): EnvConfigLoader.Load;   *)
(*   - the run loop of cmd/main.go.                                        *)
(*   - the in-memory git repository manager (internal/gitops):            *)
(*     CloneAndWorktree, GetFile, CommitAndPush;                           *)
(*   - the GitLab listing script (scripts/get_gitlab_repos.go): the paged  *)
(*     listing and updateEnvFile;                                          *)
(*   - the single-file variant's updateResource and the manifest           *)
(*     package's UpdateResourceLimitsWithStruct.                           *)
(*                                                                         *)
(* A manifest file is modelled as the tree its YAML text denotes.  The     *)
(* typed decode keeps what the kind's Go struct declares and drops the     *)
(* rest; quantities are parsed to values and written back in canonical     *)
(* form.                                                                   *)
(***************************************************************************)
EXTENDS Integers, Sequences, FiniteSets, TLC

VARIABLES file, resCfg, result, second, phase

\* The configuration loader: the process environment, the .env file, the
\* Config that Load returned.
VARIABLES environ, dotenv, config, loaded

patchVars == <<file, resCfg, result, second, phase>>

confVars == <<environ, dotenv, config, loaded>>

\* The run loop of main: the step it is at, the index of the repository in
\* progress, the target file of its worktree (<<>> when absent), the target
\* path, the bytes read, the bytes Patch returned, the steps taken so far and
\* the number of times the quantity set was parsed.
VARIABLES pc, idx, worktree, targetPath, content, patched, log, parses

mainVars == <<pc, idx, worktree, targetPath, content, patched, log, parses>>

\* The git collaborator: the remote's branches, the in-memory clones, the
\* last call made on a clone and the number of commits that exist.
VARIABLES remote, clones, gitOp, commits

gitVars == <<remote, clones, gitOp, commits>>

\* The .env file of the repository-fetching script: its content, the content
\* before each call of updateEnvFile, and the key and value of the calls.
VARIABLES envFile, envHist, envArg

envVars == <<envFile, envHist, envArg>>

\* The repository-fetching script: the result pages the GitLab server has
\* for the group, the step the script is at, opt.Page, the projects
\* collected and the page numbers the server was asked for.
VARIABLES serverPages, spc, optPage, allProjects, requested

scriptVars == <<serverPages, spc, optPage, allProjects, requested>>

\* The multi-document manifest package: the documents of the manifest file
\* on disk, the ResourceConfig of the call and what the call returned.
VARIABLES diskFile, structConfig, updateResult

manifestVars == <<diskFile, structConfig, updateResult>>

\* The collaborators and scripts around the run loop.
toolVars == <<gitVars, envVars, scriptVars, manifestVars>>

\* What a call on the git collaborator leaves alone.
notGitVars == <<patchVars, confVars, mainVars, envVars, scriptVars, manifestVars>>

\* What the script's updateEnvFile leaves alone.
notEnvVars == <<patchVars, confVars, mainVars, gitVars, scriptVars, manifestVars>>

\* What the repository-fetching script leaves alone.
notScriptVars == <<patchVars, confVars, mainVars, gitVars, manifestVars>>

\* What the manifest package leaves alone.
notManifestVars == <<patchVars, confVars, mainVars, gitVars, envVars, scriptVars>>

vars == <<patchVars, confVars, mainVars, toolVars>>

\* Longest container list of a generated manifest.
MaxContainers == 2

\* Longest REPO_URLS value of a generated environment, in characters.
MaxUrlLen == 4

\* Most repositories a generated REPO_URLS names for a run of main.
MaxRepos == 2

-----------------------------------------------------------------------------
(* Resource quantities: resource.Quantity, its parser and its canonical     *)
(* string form.  A quantity string is a number and a suffix; a parsed       *)
(* quantity is a count of its format's smallest unit (milli-units for       *)
(* DecimalSI, Ki for BinarySI).                                             *)

QtyStr(n, suf) == [n |-> n, suf |-> suf]

ValidQuantity(s) == s.suf \in {"m", "", "Ki", "Mi"}

ParseQuantity(s) ==
    CASE s.suf = "m"  -> [val |-> s.n,        fmt |-> "DecimalSI"]
      [] s.suf = ""   -> [val |-> s.n * 1000, fmt |-> "DecimalSI"]
      [] s.suf = "Ki" -> [val |-> s.n,        fmt |-> "BinarySI"]
      [] s.suf = "Mi" -> [val |-> s.n * 1024, fmt |-> "BinarySI"]

\* A canonical form that picks the larger suffix without dividing the number.
QuantityStringUnscaled(q) ==
    IF q.fmt = "DecimalSI"
    THEN IF q.val % 1000 = 0 THEN QtyStr(q.val, "") ELSE QtyStr(q.val, "m")
    ELSE IF q.val % 1024 = 0 THEN QtyStr(q.val, "Mi") ELSE QtyStr(q.val, "Ki")

QuantityString(q) ==
    IF q.fmt = "DecimalSI"
    THEN IF q.val % 1000 = 0 THEN QtyStr(q.val \div 1000, "") ELSE QtyStr(q.val, "m")
    ELSE IF q.val % 1024 = 0 THEN QtyStr(q.val \div 1024, "Mi") ELSE QtyStr(q.val, "Ki")

\* ResourceConfig: the four parsed quantities handed to Patch.
ResourceConfig(cpuReq, memReq, cpuLim, memLim) ==
    [CPURequest |-> ParseQuantity(cpuReq), MemRequest |-> ParseQuantity(memReq),
     CPULimit   |-> ParseQuantity(cpuLim), MemLimit   |-> ParseQuantity(memLim)]

-----------------------------------------------------------------------------
(* The typed shapes.  A ResourceList is a function from resource names to  *)
(* values; the empty list is the empty function <<>>.                      *)

NoResourceList == <<>>

\* The zero corev1.ResourceRequirements.
ZeroResources == [requests |-> NoResourceList, limits |-> NoResourceList, claims |-> <<>>]

ListValid(l) == \A k \in DOMAIN l : ValidQuantity(l[k])

DecodeList(l) == [k \in DOMAIN l |-> ParseQuantity(l[k])]

EncodeList(l) == [k \in DOMAIN l |-> QuantityString(l[k])]

\* A container of the file: resources is <<>> when the key is absent, else <<r>>.
RawContainerValid(c) ==
    \A i \in DOMAIN c.resources :
        ListValid(c.resources[i].requests) /\ ListValid(c.resources[i].limits)

DecodeContainer(c) ==
    [name |-> c.name, image |-> c.image,
     resources |->
        IF c.resources = <<>> THEN ZeroResources
        ELSE [requests |-> DecodeList(c.resources[1].requests),
              limits   |-> DecodeList(c.resources[1].limits),
              claims   |-> c.resources[1].claims]]

\* The Resources struct is always written, as {} when it is zero.
EncodeContainer(c) ==
    [name |-> c.name, image |-> c.image,
     resources |-> << [requests |-> EncodeList(c.resources.requests),
                       limits   |-> EncodeList(c.resources.limits),
                       claims   |-> c.resources.claims] >>]

-----------------------------------------------------------------------------
(* getKind: the top-level kind of a parseable file.                        *)

NoError == ""

\* A resolver that also checks that the body has the shape of a workload.
getKindValidates(data) ==
    IF ~data.syntaxOk \/ ~data.specIsMap
    THEN [kind |-> "", err |-> "YAML unmarshal error"]
    ELSE [kind |-> IF data.hasKind THEN data.kind ELSE "", err |-> NoError]

\* A resolver that drops the decoder's error and reports an empty kind.
getKindIgnoresError(data) ==
    [kind |-> IF data.syntaxOk /\ data.hasKind THEN data.kind ELSE "", err |-> NoError]

getKind(data) ==
    IF ~data.syntaxOk
    THEN [kind |-> "", err |-> "YAML unmarshal error"]
    ELSE [kind |-> IF data.hasKind THEN data.kind ELSE "", err |-> NoError]

\* A table that also answers to a lower-case spelling.
extractorMapLowercase ==
    [k \in {"Deployment", "DaemonSet", "StatefulSet", "Job", "deployment"} |-> "template"]
        @@ ("Pod" :> "pod")

\* A table whose Pod entry reads the pod template's list.
extractorMapPodTemplate ==
    [k \in {"Deployment", "DaemonSet", "StatefulSet", "Job", "Pod"} |-> "template"]

\* A table with a sixth entry.
extractorMapWithService ==
    [k \in {"Deployment", "DaemonSet", "StatefulSet", "Job", "Service"} |-> "template"]
        @@ ("Pod" :> "pod")

(* extractorMap: for each supported kind, the path of the container list   *)
(* in that kind's typed struct.                                            *)
extractorMap ==
    [k \in {"Deployment", "DaemonSet", "StatefulSet", "Job"} |-> "template"]
        @@ ("Pod" :> "pod")

\* A lookup that falls back to the other path when the kind's own list is empty.
RawContainersAtFallback(data, path) ==
    LET own   == IF path = "template" THEN data.tmpl ELSE data.pod
        other == IF path = "template" THEN data.pod ELSE data.tmpl
    IN IF own = <<>> THEN other ELSE own

\* The container list of the file at a path.
RawContainersAt(data, path) == IF path = "template" THEN data.tmpl ELSE data.pod

(* unmarshalK8sResource[T]: decode the file into the typed struct whose    *)
(* container list lives at `path`.  Keys the struct does not declare are   *)
(* ignored; a value of the wrong type or an unparsable quantity is an      *)
(* error.                                                                  *)
unmarshalK8sResource(data, path) ==
    LET raw == RawContainersAt(data, path) IN
    IF ~data.syntaxOk \/ ~data.specIsMap
          \/ \E i \in DOMAIN raw : ~RawContainerValid(raw[i])
    THEN [ok |-> FALSE, obj |-> <<>>]
    ELSE [ok |-> TRUE,
          obj |-> << [apiVersion |-> data.apiVersion,
                      kind       |-> IF data.hasKind THEN data.kind ELSE "",
                      name       |-> data.name,
                      path       |-> path,
                      containers |-> [i \in DOMAIN raw |-> DecodeContainer(raw[i])]] >>]

\* yaml.Marshal of a typed manifest.
Marshal(obj) ==
    LET cs == [i \in DOMAIN obj.containers |-> EncodeContainer(obj.containers[i])] IN
    [syntaxOk |-> TRUE, hasKind |-> obj.kind # "", kind |-> obj.kind,
     apiVersion |-> obj.apiVersion, name |-> obj.name, specIsMap |-> TRUE,
     tmpl |-> IF obj.path = "template" THEN cs ELSE <<>>,
     pod  |-> IF obj.path = "pod" THEN cs ELSE <<>>,
     extra |-> FALSE]

\* The literal with the limits and the requests exchanged.
NewResourcesSwapped(cfg) ==
    [requests |-> ("cpu" :> cfg.CPULimit) @@ ("memory" :> cfg.MemLimit),
     limits   |-> ("cpu" :> cfg.CPURequest) @@ ("memory" :> cfg.MemRequest),
     claims   |-> <<>>]

\* The ResourceRequirements literal Patch assigns to containers[0].Resources.
NewResources(cfg) ==
    [requests |-> ("cpu" :> cfg.CPURequest) @@ ("memory" :> cfg.MemRequest),
     limits   |-> ("cpu" :> cfg.CPULimit) @@ ("memory" :> cfg.MemLimit),
     claims   |-> <<>>]

\* An assignment of a whole new container instead of its Resources field.
SetResourcesWholeContainer(obj, cfg) ==
    [obj EXCEPT !.containers[1] =
        [name |-> "", image |-> "",
         resources |-> [requests |-> ("cpu" :> cfg.CPURequest) @@ ("memory" :> cfg.MemRequest),
                        limits   |-> ("cpu" :> cfg.CPULimit) @@ ("memory" :> cfg.MemLimit),
                        claims   |-> <<>>]]]

\* An assignment made to every container of the list.
SetResourcesAll(obj, cfg) ==
    [obj EXCEPT !.containers =
        [i \in DOMAIN obj.containers |->
            [obj.containers[i] EXCEPT !.resources =
                [requests |-> ("cpu" :> cfg.CPURequest) @@ ("memory" :> cfg.MemRequest),
                 limits   |-> ("cpu" :> cfg.CPULimit) @@ ("memory" :> cfg.MemLimit),
                 claims   |-> <<>>]]]]

\* A key-by-key merge into the requests and limits container 0 had.
SetResourcesMerge(obj, cfg) ==
    LET old == obj.containers[1].resources IN
    [obj EXCEPT !.containers[1].resources =
        [requests |-> ("cpu" :> cfg.CPURequest) @@ ("memory" :> cfg.MemRequest) @@ old.requests,
         limits   |-> ("cpu" :> cfg.CPULimit) @@ ("memory" :> cfg.MemLimit) @@ old.limits,
         claims   |-> <<>>]]

\* containers[0].Resources = ...: the slice shares the manifest's storage.
SetResources(obj, cfg) == [obj EXCEPT !.containers[1].resources = NewResources(cfg)]

\* An error return that hands back an empty document instead of nil bytes.
FailureWithBytes(msg, warned, steps) ==
    [out |-> << [syntaxOk |-> TRUE, hasKind |-> FALSE, kind |-> "", apiVersion |-> "",
                 name |-> "", specIsMap |-> TRUE, tmpl |-> <<>>, pod |-> <<>>,
                 extra |-> FALSE] >>,
     err |-> msg, warned |-> warned, steps |-> steps]

\* The error returns of Patch: nil bytes and the error.
Failure(msg, warned, steps) ==
    [out |-> <<>>, err |-> msg, warned |-> warned, steps |-> steps]

\* A Patch that looks for containers before it looks the kind up.
PatchCountsFirst(data, cfg) ==
    LET k == getKind(data) IN
    IF k.err # NoError THEN Failure(k.err, FALSE, <<"getKind">>)
    ELSE IF data.tmpl = <<>> /\ data.pod = <<>>
    THEN Failure("no containers found in " \o k.kind, FALSE, <<"getKind">>)
    ELSE IF k.kind \notin DOMAIN extractorMap
    THEN Failure("unsupported kind: " \o k.kind, FALSE, <<"getKind", "lookup">>)
    ELSE
    LET e == unmarshalK8sResource(data, extractorMap[k.kind]) IN
    IF ~e.ok
    THEN Failure("failed to extract containers for kind " \o k.kind, FALSE,
                 <<"getKind", "lookup", "extract">>)
    ELSE
    IF Len(e.obj[1].containers) = 0
    THEN Failure("no containers found in " \o k.kind, FALSE,
                 <<"getKind", "lookup", "extract">>)
    ELSE [out    |-> << Marshal(SetResources(e.obj[1], cfg)) >>,
          err    |-> NoError,
          warned |-> Len(e.obj[1].containers) > 1,
          steps  |-> <<"getKind", "lookup", "extract", "index0", "marshal">>]

(* DefaultK8sResourcePatcher.Patch.  out is <<>> for nil bytes and <<doc>>  *)
(* otherwise; err is NoError for a nil error; warned records the           *)
(* multi-container warning; steps lists what the call went through.        *)
Patch(data, cfg) ==
    LET k == getKind(data) IN
    IF k.err # NoError THEN Failure(k.err, FALSE, <<"getKind">>)
    ELSE IF k.kind \notin DOMAIN extractorMap
    THEN Failure("unsupported kind: " \o k.kind, FALSE, <<"getKind", "lookup">>)
    ELSE
    LET e == unmarshalK8sResource(data, extractorMap[k.kind]) IN
    IF ~e.ok
    THEN Failure("failed to extract containers for kind " \o k.kind, FALSE,
                 <<"getKind", "lookup", "extract">>)
    ELSE
    LET manifest   == e.obj[1]
        containers == manifest.containers
        warned     == Len(containers) > 1
    IN
    IF Len(containers) = 0
    THEN Failure("no containers found in " \o k.kind, FALSE,
                 <<"getKind", "lookup", "extract">>)
    ELSE [out    |-> << Marshal(SetResources(manifest, cfg)) >>,
          err    |-> NoError,
          warned |-> warned,
          steps  |-> <<"getKind", "lookup", "extract", "index0", "marshal">>]

-----------------------------------------------------------------------------
(* updateResource of the single-file version of main: the same steps as    *)
(* Patch, with a switch on the kind in place of the table.                 *)

\* What yaml.Marshal writes for a nil value: the document null.
NullDocument ==
    [syntaxOk |-> TRUE, hasKind |-> FALSE, kind |-> "", apiVersion |-> "",
     name |-> "", specIsMap |-> FALSE, tmpl |-> <<>>, pod |-> <<>>, extra |-> FALSE]

(* The cases of the switch: the path of the container list in the kind's   *)
(* typed struct, and whether the case assigns the decoded object to        *)
(* manifest.  The Pod case does not.                                       *)
switchCases ==
    [k \in {"Deployment", "DaemonSet", "StatefulSet", "Job"} |->
        [path |-> "template", assignsManifest |-> TRUE]]
        @@ ("Pod" :> [path |-> "pod", assignsManifest |-> FALSE])

\* yaml.Marshal(manifest) for manifest of type any: <<>> is nil.
MarshalAny(manifest) ==
    IF manifest = <<>> THEN NullDocument ELSE Marshal(manifest[1])

updateResource(data, cfg) ==
    LET k == getKind(data) IN
    IF k.err # NoError THEN Failure(k.err, FALSE, <<"getKind">>)
    ELSE IF k.kind \notin DOMAIN switchCases
    THEN Failure("Unsupported kind: " \o k.kind, FALSE, <<"getKind", "switch">>)
    ELSE
    LET e == unmarshalK8sResource(data, switchCases[k.kind].path) IN
    IF ~e.ok
    THEN Failure("unmarshal error", FALSE, <<"getKind", "switch", "unmarshal">>)
    ELSE
    LET obj        == e.obj[1]
        containers == obj.containers
        patchedObj == SetResources(obj, cfg)
    IN
    IF Len(containers) = 0
    THEN Failure("No containers found in " \o k.kind, FALSE,
                 <<"getKind", "switch", "unmarshal">>)
    ELSE [out    |-> << MarshalAny(IF switchCases[k.kind].assignsManifest
                                   THEN <<patchedObj>> ELSE <<>>) >>,
          err    |-> NoError,
          warned |-> Len(containers) > 1,
          steps  |-> <<"getKind", "switch", "unmarshal", "index0", "marshal">>]

-----------------------------------------------------------------------------
(* internal/config: EnvConfigLoader.  A string is the sequence of its      *)
(* characters (a name or a quantity counts as one character); the empty    *)
(* string is <<>>.  The environment is a function from the names of the    *)
(* variables that are set to their values.                                 *)

EmptyString == <<>>

Str(a) == <<a>>

IsSpace(c) == c \in {" ", "\t"}

\* os.LookupEnv with the non-empty test dropped.
getEnvAllowsEmpty(env, key, defaultVal) ==
    IF key \in DOMAIN env THEN env[key] ELSE defaultVal

getEnv(env, key, defaultVal) ==
    IF key \in DOMAIN env /\ env[key] # EmptyString THEN env[key] ELSE defaultVal

(* godotenv.Load: the variables of the .env file that the process does not *)
(* have yet are set; without a file the error is dropped.                  *)
godotenvLoad(env, f) ==
    IF f = <<>> THEN env
    ELSE [k \in DOMAIN env \cup DOMAIN f[1] |->
            IF k \in DOMAIN env THEN env[k] ELSE f[1][k]]

RECURSIVE SplitFrom(_, _, _, _)
SplitFrom(s, i, cur, acc) ==
    IF i > Len(s) THEN Append(acc, cur)
    ELSE IF s[i] = "," THEN SplitFrom(s, i + 1, <<>>, Append(acc, cur))
    ELSE SplitFrom(s, i + 1, Append(cur, s[i]), acc)

\* A split that leaves out the empty fields.
SplitDropEmpty(s) == SelectSeq(SplitFrom(s, 1, <<>>, <<>>), LAMBDA f : f # <<>>)

\* strings.Split(s, ",").
Split(s) == SplitFrom(s, 1, <<>>, <<>>)

RECURSIVE TrimLeft(_)
TrimLeft(s) == IF s # <<>> /\ IsSpace(Head(s)) THEN TrimLeft(Tail(s)) ELSE s

RECURSIVE TrimRight(_)
TrimRight(s) ==
    IF s # <<>> /\ IsSpace(s[Len(s)]) THEN TrimRight(SubSeq(s, 1, Len(s) - 1)) ELSE s

\* strings.TrimSpace.
TrimSpace(s) == TrimRight(TrimLeft(s))

DefaultRepoURLs == <<"__URL_1__", ",", "__URL_2__">>

\* EnvConfigLoader.Load on the environment godotenv.Load left.
Load(env) ==
    LET repoURLs == getEnv(env, "REPO_URLS", DefaultRepoURLs)
        fields   == Split(repoURLs)
        urls     == [i \in DOMAIN fields |-> TrimSpace(fields[i])]
    IN [Env        |-> getEnv(env, "ENV", Str("__ENV__")),
        BaseURL    |-> getEnv(env, "BASE_URL", Str("__GIT_URL__")),
        Branch     |-> getEnv(env, "BRANCH", Str("__BRANCH__")),
        RepoURLs   |-> urls,
        CPULimit   |-> getEnv(env, "CPU_LIMIT", Str(QtyStr(20, "m"))),
        MemLimit   |-> getEnv(env, "MEM_LIMIT", Str(QtyStr(32, "Mi"))),
        CPURequest |-> getEnv(env, "CPU_REQUEST", Str(QtyStr(10, "m"))),
        MemRequest |-> getEnv(env, "MEM_REQUEST", Str(QtyStr(16, "Mi")))]

NoConfig ==
    [Env |-> <<>>, BaseURL |-> <<>>, Branch |-> <<>>, RepoURLs |-> <<>>,
     CPULimit |-> <<>>, MemLimit |-> <<>>, CPURequest |-> <<>>, MemRequest |-> <<>>]

NoEnvironment == <<>>

(* The environments the loader is exercised on: every variable is unset,   *)
(* set to the empty string or set to a value.                              *)

Settings(v) == { <<>>, <<EmptyString>>, <<v>> }

RepoURLChars == {"a", "b", ",", " "}

RepoURLStrings == UNION { [1..n -> RepoURLChars] : n \in 0..MaxUrlLen }

\* The function that has key k exactly when its setting st is <<value>>.
Setting(k, st) == [x \in IF st = <<>> THEN {} ELSE {k} |-> st[1]]

Environments ==
    { Setting("ENV", e) @@ Setting("CPU_LIMIT", c) @@ Setting("REPO_URLS", u)
        @@ Setting("BASE_URL", IF r = "unset" THEN <<>>
                               ELSE IF r = "empty" THEN <<EmptyString>>
                               ELSE <<Str("https://git.example")>>)
        @@ Setting("BRANCH", IF r = "unset" THEN <<>>
                             ELSE IF r = "empty" THEN <<EmptyString>> ELSE <<Str("main")>>)
        @@ Setting("MEM_LIMIT", IF r = "unset" THEN <<>>
                                ELSE IF r = "empty" THEN <<EmptyString>>
                                ELSE <<Str(QtyStr(256, "Mi"))>>)
        @@ Setting("CPU_REQUEST", IF r = "unset" THEN <<>>
                                  ELSE IF r = "empty" THEN <<EmptyString>>
                                  ELSE <<Str(QtyStr(50, "m"))>>)
        @@ Setting("MEM_REQUEST", IF r = "unset" THEN <<>>
                                  ELSE IF r = "empty" THEN <<EmptyString>>
                                  ELSE <<Str(QtyStr(128, "Mi"))>>) :
        e \in Settings(Str("prod")), c \in Settings(Str(QtyStr(100, "m"))),
        u \in {<<>>} \cup { <<x>> : x \in RepoURLStrings },
        r \in {"unset", "empty", "set"} }

DotenvFiles ==
    { <<>>,
      << ("ENV" :> Str("development")) @@ ("MEM_LIMIT" :> EmptyString)
            @@ ("REPO_URLS" :> <<"a", ",", "b">>) >> }

ConfigIdle ==
    /\ environ = NoEnvironment
    /\ dotenv = <<>>
    /\ config = NoConfig
    /\ loaded = FALSE

ConfigInit ==
    /\ environ \in Environments
    /\ dotenv \in DotenvFiles
    /\ config = NoConfig
    /\ loaded = FALSE

\* configLoader.Load(): godotenv.Load sets the process environment, then the
\* Config is built from it.
LoadConfig ==
    /\ ~loaded
    /\ environ' = godotenvLoad(environ, dotenv)
    /\ config' = Load(godotenvLoad(environ, dotenv))
    /\ loaded' = TRUE
    /\ UNCHANGED dotenv

-----------------------------------------------------------------------------
(* The manifests and quantity sets the patcher is exercised on.            *)

SupportedKinds == {"Deployment", "DaemonSet", "StatefulSet", "Pod", "Job"}

KindStrings == SupportedKinds \cup {"Service", "deployment", ""}

RawResources ==
    { <<>>,
      << [requests |-> ("cpu" :> QtyStr(1000, "m")), limits |-> NoResourceList,
          claims |-> <<>>] >>,
      << [requests |-> ("cpu" :> QtyStr(500, "m")) @@ ("ephemeral-storage" :> QtyStr(1, "Mi")),
          limits   |-> ("memory" :> QtyStr(2048, "Ki")),
          claims   |-> <<"gpu">>] >>,
      << [requests |-> ("cpu" :> QtyStr(1, "abc")), limits |-> NoResourceList,
          claims |-> <<>>] >> }

RawContainers ==
    [name : {"app", "sidecar"}, image : {"nginx"}, resources : RawResources]

ContainerLists == UNION { [1..n -> RawContainers] : n \in 0..MaxContainers }

\* A container list placed at the path the manifest's kind does not use.
StrayLists == { <<>>, << [name |-> "stray", image |-> "busybox", resources |-> <<>>] >> }

MalformedFile ==
    [syntaxOk |-> FALSE, hasKind |-> FALSE, kind |-> "", apiVersion |-> "",
     name |-> "", specIsMap |-> FALSE, tmpl |-> <<>>, pod |-> <<>>, extra |-> FALSE]

ParseableFiles ==
    { [syntaxOk |-> TRUE, hasKind |-> hk, kind |-> k, apiVersion |-> "apps/v1",
       name |-> "test", specIsMap |-> sm,
       tmpl |-> IF at = "template" THEN main ELSE stray,
       pod  |-> IF at = "pod" THEN main ELSE stray,
       extra |-> x] :
        hk \in BOOLEAN, k \in KindStrings, sm \in BOOLEAN, at \in {"template", "pod"},
        main \in ContainerLists, stray \in StrayLists, x \in BOOLEAN }

Files ==
    {MalformedFile} \cup
    { f \in ParseableFiles :
        /\ (~f.hasKind => f.kind = "")
        /\ (~f.specIsMap => f.tmpl = <<>> /\ f.pod = <<>>) }

ResourceConfigs ==
    { ResourceConfig(QtyStr(100, "m"), QtyStr(128, "Mi"), QtyStr(200, "m"), QtyStr(256, "Mi")),
      ResourceConfig(QtyStr(1000, "m"), QtyStr(1024, "Ki"), QtyStr(2, ""), QtyStr(2048, "Ki")) }

NoResult == [out |-> <<>>, err |-> NoError, warned |-> FALSE, steps |-> <<>>]

-----------------------------------------------------------------------------
(* cmd/main.go: the run loop.  A path is the sequence of its elements.     *)

RECURSIVE Clean(_, _)
Clean(elems, acc) ==
    IF elems = <<>> THEN acc
    ELSE IF Head(elems) = "." THEN Clean(Tail(elems), acc)
    ELSE IF Head(elems) = ".." /\ acc # <<>> /\ acc[Len(acc)] # ".."
         THEN Clean(Tail(elems), SubSeq(acc, 1, Len(acc) - 1))
    ELSE Clean(Tail(elems), Append(acc, Head(elems)))

\* filepath.Join: the non-empty elements, cleaned.
Join(elems) == Clean(SelectSeq(elems, LAMBDA e : e # ""), <<>>)

\* filepath.Join("overlays", cfg.Env, "patches", "set_resources.yaml").
TargetPath(c) == Join(<<"overlays">> \o c.Env \o <<"patches", "set_resources.yaml">>)

\* resource.MustParse returns for a string that is a quantity and panics
\* for any other.
MustParseReturns(s) == Len(s) = 1 /\ ValidQuantity(s[1])

\* The ResourceConfig literal of the Patch call.
QuantitiesOf(c) ==
    ResourceConfig(c.CPURequest[1], c.MemRequest[1], c.CPULimit[1], c.MemLimit[1])

\* A file that Create has just truncated.
EmptyFile ==
    [syntaxOk |-> TRUE, hasKind |-> FALSE, kind |-> "", apiVersion |-> "",
     name |-> "", specIsMap |-> TRUE, tmpl |-> <<>>, pod |-> <<>>, extra |-> FALSE]

Event(step, ok, path, quantities) ==
    [repo |-> idx, step |-> step, ok |-> ok, path |-> path, quantities |-> quantities]

\* `continue`, or the end of the loop body: on to the next repository, or to
\* the final message after the last one.
NextRepository ==
    /\ idx' = idx + 1
    /\ pc' = IF idx + 1 > Len(config.RepoURLs) THEN "done" ELSE "clone"

(* The target files the cloned repositories hold.                          *)
Deployment(containers) ==
    [syntaxOk |-> TRUE, hasKind |-> TRUE, kind |-> "Deployment", apiVersion |-> "apps/v1",
     name |-> "test", specIsMap |-> TRUE, tmpl |-> containers, pod |-> <<>>,
     extra |-> FALSE]

Worktrees ==
    { <<>>,
      << MalformedFile >>,
      << [Deployment(<<>>) EXCEPT !.kind = "Service"] >>,
      << Deployment(<<>>) >>,
      << Deployment(<< [name |-> "app", image |-> "nginx", resources |-> <<>>] >>) >>,
      << Deployment(<< [name |-> "app", image |-> "nginx", resources |-> <<>>],
                       [name |-> "sidecar", image |-> "nginx", resources |-> <<>>] >>) >> }

RepoNames == <<"repo-one", ",", "repo-two", ",", "repo-three", ",", "repo-four">>

MainEnvironments ==
    { Setting("ENV", e) @@ Setting("CPU_REQUEST", q) @@ Setting("REPO_URLS", u) :
        e \in { <<>>, <<Str("prod")>> },
        q \in { <<>>, <<Str(QtyStr(100, "m"))>>, <<Str(QtyStr(1, "abc"))>> },
        u \in { <<>> } \cup { << SubSeq(RepoNames, 1, 2 * n - 1) >> : n \in 1..MaxRepos } }

MainIdle ==
    /\ pc = "idle"
    /\ idx = 0
    /\ worktree = <<>>
    /\ targetPath = <<>>
    /\ content = <<>>
    /\ patched = <<>>
    /\ log = <<>>
    /\ parses = 0

MainInit ==
    /\ environ \in MainEnvironments
    /\ dotenv = <<>>
    /\ config = NoConfig
    /\ loaded = FALSE
    /\ pc = "load"
    /\ idx = 0
    /\ worktree = <<>>
    /\ targetPath = <<>>
    /\ content = <<>>
    /\ patched = <<>>
    /\ log = <<>>
    /\ parses = 0

\* cfg := configLoader.Load(), and the loop starts at the first entry.
MainLoad ==
    /\ pc = "load"
    /\ LoadConfig
    /\ idx' = 1
    /\ pc' = "clone"
    /\ UNCHANGED <<worktree, targetPath, content, patched, log, parses>>
    /\ UNCHANGED <<patchVars, toolVars>>

\* gitManager.CloneAndWorktree: it fails, or gives a worktree.
MainClone ==
    /\ pc = "clone"
    /\ \/ /\ log' = Append(log, Event("clone", FALSE, <<>>, <<>>))
          /\ NextRepository
          /\ UNCHANGED worktree
       \/ /\ \E w \in Worktrees : worktree' = w
          /\ log' = Append(log, Event("clone", TRUE, <<>>, <<>>))
          /\ pc' = "read"
          /\ UNCHANGED idx
    /\ UNCHANGED <<targetPath, content, patched, parses>>
    /\ UNCHANGED <<confVars, patchVars, toolVars>>

\* targetPath := filepath.Join(...); gitManager.GetFile(worktree, targetPath).
MainGetFile ==
    /\ pc = "read"
    /\ targetPath' = TargetPath(config)
    /\ IF worktree = <<>>
       THEN /\ log' = Append(log, Event("read", FALSE, TargetPath(config), <<>>))
            /\ NextRepository
            /\ UNCHANGED content
       ELSE /\ log' = Append(log, Event("read", TRUE, TargetPath(config), <<>>))
            /\ content' = worktree
            /\ pc' = "patch"
            /\ UNCHANGED idx
    /\ UNCHANGED <<worktree, patched, parses>>
    /\ UNCHANGED <<confVars, patchVars, toolVars>>

\* A patch step that goes on to write the file whatever Patch returned.
MainPatchNoContinue ==
    /\ pc = "patch"
    /\ parses' = parses + 1
    /\ IF ~(/\ MustParseReturns(config.CPURequest) /\ MustParseReturns(config.MemRequest)
            /\ MustParseReturns(config.CPULimit) /\ MustParseReturns(config.MemLimit))
       THEN /\ pc' = "panic"
            /\ UNCHANGED <<idx, patched, log>>
       ELSE LET r == Patch(content[1], QuantitiesOf(config)) IN
            /\ log' = Append(log, Event("patch", r.err = NoError, <<>>, <<QuantitiesOf(config)>>))
            /\ patched' = IF r.err # NoError THEN <<EmptyFile>> ELSE r.out
            /\ pc' = "create"
            /\ UNCHANGED idx
    /\ UNCHANGED <<worktree, targetPath, content>>
    /\ UNCHANGED <<confVars, patchVars, toolVars>>

\* A patch step that overwrites the configured request with the limit.
MainPatchChangesConfig ==
    /\ pc = "patch"
    /\ parses' = parses + 1
    /\ IF ~(/\ MustParseReturns(config.CPURequest) /\ MustParseReturns(config.MemRequest)
            /\ MustParseReturns(config.CPULimit) /\ MustParseReturns(config.MemLimit))
       THEN /\ pc' = "panic"
            /\ UNCHANGED <<idx, patched, log>>
       ELSE LET r == Patch(content[1], QuantitiesOf(config)) IN
            /\ log' = Append(log, Event("patch", r.err = NoError, <<>>, <<QuantitiesOf(config)>>))
            /\ IF r.err # NoError
               THEN NextRepository /\ UNCHANGED patched
               ELSE patched' = r.out /\ pc' = "create" /\ UNCHANGED idx
    /\ UNCHANGED <<worktree, targetPath, content>>
    /\ config' = [config EXCEPT !.CPURequest = config.CPULimit]
    /\ UNCHANGED <<environ, dotenv, loaded, patchVars, toolVars>>

(* patcher.Patch(file, ResourceConfig{MustParse(...), ...}): the four      *)
(* quantities are parsed first; MustParse panics on a string that is no    *)
(* quantity, which ends the program.                                        *)
MainPatch ==
    /\ pc = "patch"
    /\ parses' = parses + 1
    /\ IF ~(/\ MustParseReturns(config.CPURequest) /\ MustParseReturns(config.MemRequest)
            /\ MustParseReturns(config.CPULimit) /\ MustParseReturns(config.MemLimit))
       THEN /\ pc' = "panic"
            /\ UNCHANGED <<idx, patched, log>>
       ELSE LET r == Patch(content[1], QuantitiesOf(config)) IN
            /\ log' = Append(log, Event("patch", r.err = NoError, <<>>, <<QuantitiesOf(config)>>))
            /\ IF r.err # NoError
               THEN NextRepository /\ UNCHANGED patched
               ELSE patched' = r.out /\ pc' = "create" /\ UNCHANGED idx
    /\ UNCHANGED <<worktree, targetPath, content>>
    /\ UNCHANGED <<confVars, patchVars, toolVars>>

\* worktree.Filesystem.Create(targetPath): it fails, or truncates the file.
MainCreate ==
    /\ pc = "create"
    /\ \/ /\ log' = Append(log, Event("create", FALSE, targetPath, <<>>))
          /\ NextRepository
          /\ UNCHANGED worktree
       \/ /\ log' = Append(log, Event("create", TRUE, targetPath, <<>>))
          /\ worktree' = <<EmptyFile>>
          /\ pc' = "write"
          /\ UNCHANGED idx
    /\ UNCHANGED <<targetPath, content, patched, parses>>
    /\ UNCHANGED <<confVars, patchVars, toolVars>>

\* f.Write(patched) and f.Close().
MainWrite ==
    /\ pc = "write"
    /\ \/ /\ log' = Append(log, Event("write", FALSE, targetPath, <<>>))
          /\ NextRepository
          /\ UNCHANGED worktree
       \/ /\ log' = Append(log, Event("write", TRUE, targetPath, <<>>))
          /\ worktree' = patched
          /\ pc' = "commit"
          /\ UNCHANGED idx
    /\ UNCHANGED <<targetPath, content, patched, parses>>
    /\ UNCHANGED <<confVars, patchVars, toolVars>>

\* A commit step that stages the whole worktree.
MainCommitStagesAll ==
    /\ pc = "commit"
    /\ \E ok \in BOOLEAN : log' = Append(log, Event("commit", ok, <<".">>, <<>>))
    /\ NextRepository
    /\ UNCHANGED <<worktree, targetPath, content, patched, parses>>
    /\ UNCHANGED <<confVars, patchVars, toolVars>>

\* gitManager.CommitAndPush(repo, worktree, targetPath): the path it stages
\* is targetPath; the loop goes on whether it fails or not.
MainCommit ==
    /\ pc = "commit"
    /\ \E ok \in BOOLEAN : log' = Append(log, Event("commit", ok, targetPath, <<>>))
    /\ NextRepository
    /\ UNCHANGED <<worktree, targetPath, content, patched, parses>>
    /\ UNCHANGED <<confVars, patchVars, toolVars>>

-----------------------------------------------------------------------------
(* The git collaborator (internal/gitops): a remote with branches, clones  *)
(* made in memory, and CloneAndWorktree, GetFile and CommitAndPush on      *)
(* them.  A tree is a function from paths to file contents; a commit is    *)
(* an identifier and a tree.                                               *)

\* Most calls made on the clones in one run.
MaxGitCalls == 6

GitPaths == {"testfile.txt", "newfile.txt"}

GitContents == {"hello world", "new content"}

RemoteBranches == {"master", "dev"}

BranchNames == RemoteBranches \cup {"doesnotexist"}

CloneNames == {"first", "second"}

NoTree == <<>>

\* The tree with the file at path set to data.
Put(tree, path, data) == (path :> data) @@ tree

NoClone ==
    [live |-> FALSE, branch |-> "", base |-> 0,
     head |-> [id |-> 0, tree |-> NoTree], fs |-> NoTree, index |-> NoTree]

(* CloneAndWorktree: git.Clone of one branch into memory.  The clone's     *)
(* HEAD, index and filesystem are the branch's commit; base is the commit  *)
(* the clone knows the remote branch to be at.                             *)
CloneAndWorktree(rem, branch, reachable) ==
    IF ~reachable
    THEN [err |-> "repository not found", clone |-> NoClone]
    ELSE IF branch \notin DOMAIN rem
    THEN [err |-> "reference not found", clone |-> NoClone]
    ELSE [err |-> NoError,
          clone |-> [live |-> TRUE, branch |-> branch, base |-> rem[branch].id,
                     head |-> rem[branch], fs |-> rem[branch].tree,
                     index |-> rem[branch].tree]]

\* GetFile: worktree.Filesystem.Open(path) and io.ReadAll.
GetFile(c, path) ==
    IF path \in DOMAIN c.fs
    THEN [data |-> <<c.fs[path]>>, err |-> NoError]
    ELSE [data |-> <<>>, err |-> "file does not exist"]

\* worktree.Filesystem.Create(path), f.Write(data), f.Close().
WriteFile(c, path, data) == [c EXCEPT !.fs = Put(c.fs, path, data)]

\* worktree.Add(path): the file's content goes into the index.
WorktreeAdd(c, path) ==
    IF path \notin DOMAIN c.fs
    THEN [err |-> "entry not found", clone |-> c]
    ELSE [err |-> NoError, clone |-> [c EXCEPT !.index = Put(c.index, path, c.fs[path])]]

\* worktree.Commit: a commit of the index on top of HEAD; an index equal to
\* HEAD's tree is ErrEmptyCommit.
WorktreeCommit(c, id) ==
    IF c.index = c.head.tree
    THEN [err |-> "cannot create empty commit: clean working tree", clone |-> c]
    ELSE [err |-> NoError, clone |-> [c EXCEPT !.head = [id |-> id, tree |-> c.index]]]

\* repo.Push(&git.PushOptions{}): the clone's branch goes to origin when the
\* remote branch is still at the commit the clone knows.
RepoPush(rem, c, reachable) ==
    IF ~reachable
    THEN [err |-> "transport error", remote |-> rem, clone |-> c]
    ELSE IF rem[c.branch].id = c.head.id
    THEN [err |-> "already up-to-date", remote |-> rem, clone |-> c]
    ELSE IF rem[c.branch].id # c.base
    THEN [err |-> "non-fast-forward update", remote |-> rem, clone |-> c]
    ELSE [err |-> NoError, remote |-> [rem EXCEPT ![c.branch] = c.head],
          clone |-> [c EXCEPT !.base = c.head.id]]

\* A CommitAndPush that goes on to commit and push when staging failed.
CommitAndPushIgnoresAddError(rem, c, path, id, reachable) ==
    LET a == WorktreeAdd(c, path)
        m == WorktreeCommit(a.clone, id)
        p == RepoPush(rem, m.clone, reachable)
    IN [err |-> p.err, remote |-> p.remote, clone |-> p.clone,
        calls |-> <<"add", "commit", "push">>]

\* A CommitAndPush that commits and reports success without pushing.
CommitAndPushNoPush(rem, c, path, id, reachable) ==
    LET a == WorktreeAdd(c, path)
        m == WorktreeCommit(a.clone, id)
    IN IF a.err # NoError
       THEN [err |-> a.err, remote |-> rem, clone |-> c, calls |-> <<"add">>]
       ELSE [err |-> m.err, remote |-> rem, clone |-> m.clone,
             calls |-> <<"add", "commit">>]

(* CommitAndPush: worktree.Add, worktree.Commit, repo.Push, returning at   *)
(* the first error.  calls lists the library calls made.                   *)
CommitAndPush(rem, c, path, id, reachable) ==
    LET a == WorktreeAdd(c, path) IN
    IF a.err # NoError
    THEN [err |-> a.err, remote |-> rem, clone |-> c, calls |-> <<"add">>]
    ELSE LET m == WorktreeCommit(a.clone, id) IN
         IF m.err # NoError
         THEN [err |-> m.err, remote |-> rem, clone |-> a.clone,
               calls |-> <<"add", "commit">>]
         ELSE LET p == RepoPush(rem, m.clone, reachable) IN
              [err |-> p.err, remote |-> p.remote, clone |-> p.clone,
               calls |-> <<"add", "commit", "push">>]

\* The remote of setupTestRepo, with a second branch.
InitialRemote ==
    [b \in RemoteBranches |->
        IF b = "master"
        THEN [id |-> 1, tree |-> Put(NoTree, "testfile.txt", "hello world")]
        ELSE [id |-> 2, tree |-> Put(NoTree, "testfile.txt", "new content")]]

\* The record of a call and its number in the run; for a CommitAndPush, with
\* the clone and the remote as they were before it.
GitCall(op, name, path, err, data, calls) ==
    [seq |-> gitOp.seq + 1, op |-> op, name |-> name, path |-> path, err |-> err,
     data |-> data, calls |-> calls,
     before |-> IF op = "commitAndPush" THEN clones[name] ELSE NoClone,
     remoteBefore |-> IF op = "commitAndPush" THEN remote ELSE <<>>,
     commitsBefore |-> IF op = "commitAndPush" THEN commits ELSE 0]

NoGitCall ==
    [seq |-> 0, op |-> "", name |-> "", path |-> "", err |-> NoError, data |-> <<>>,
     calls |-> <<>>, before |-> NoClone, remoteBefore |-> <<>>, commitsBefore |-> 0]

GitIdle ==
    /\ remote = <<>>
    /\ clones = <<>>
    /\ gitOp = NoGitCall
    /\ commits = 0

GitInit ==
    /\ remote = InitialRemote
    /\ clones = [n \in CloneNames |-> NoClone]
    /\ gitOp = NoGitCall
    /\ commits = 0

GitClone ==
    /\ gitOp.seq < MaxGitCalls
    /\ \E n \in CloneNames, b \in BranchNames, reachable \in BOOLEAN :
        LET r == CloneAndWorktree(remote, b, reachable) IN
        /\ clones' = IF r.err = NoError THEN [clones EXCEPT ![n] = r.clone] ELSE clones
        /\ gitOp' = GitCall("clone", n, b, r.err, <<>>, <<>>)
    /\ UNCHANGED <<remote, commits>>
    /\ UNCHANGED notGitVars

GitWriteFile ==
    /\ gitOp.seq < MaxGitCalls
    /\ \E n \in CloneNames, p \in GitPaths, d \in GitContents :
        /\ clones[n].live
        /\ clones' = [clones EXCEPT ![n] = WriteFile(clones[n], p, d)]
        /\ gitOp' = GitCall("write", n, p, NoError, <<d>>, <<>>)
    /\ UNCHANGED <<remote, commits>>
    /\ UNCHANGED notGitVars

GitGetFile ==
    /\ gitOp.seq < MaxGitCalls
    /\ \E n \in CloneNames, p \in GitPaths :
        /\ clones[n].live
        /\ LET r == GetFile(clones[n], p) IN
           gitOp' = GitCall("read", n, p, r.err, r.data, <<>>)
    /\ UNCHANGED <<remote, clones, commits>>
    /\ UNCHANGED notGitVars

GitCommitAndPush ==
    /\ gitOp.seq < MaxGitCalls
    /\ \E n \in CloneNames, p \in GitPaths, reachable \in BOOLEAN :
        /\ clones[n].live
        /\ LET r == CommitAndPush(remote, clones[n], p,
                                  Cardinality(RemoteBranches) + commits + 1, reachable) IN
           /\ remote' = r.remote
           /\ clones' = [clones EXCEPT ![n] = r.clone]
           /\ commits' = IF r.clone.head # clones[n].head THEN commits + 1 ELSE commits
           /\ gitOp' = GitCall("commitAndPush", n, p, r.err, <<>>, r.calls)
    /\ UNCHANGED notGitVars

-----------------------------------------------------------------------------
(* updateEnvFile of scripts/get_gitlab_repos.go.  The file content, the    *)
(* key and the value are Go strings: sequences of characters.              *)

\* Longest .env file of a generated input, in characters.
MaxEnvLen == 6

\* Most calls of updateEnvFile on one file.
MaxEnvCalls == 2

RECURSIVE SplitLinesFrom(_, _, _, _)
SplitLinesFrom(s, i, cur, acc) ==
    IF i > Len(s) THEN Append(acc, cur)
    ELSE IF s[i] = "\n" THEN SplitLinesFrom(s, i + 1, <<>>, Append(acc, cur))
    ELSE SplitLinesFrom(s, i + 1, Append(cur, s[i]), acc)

\* strings.Split(string(input), "\n").
SplitLines(s) == SplitLinesFrom(s, 1, <<>>, <<>>)

\* strings.HasPrefix.
HasPrefix(s, prefix) ==
    Len(s) >= Len(prefix) /\ SubSeq(s, 1, Len(prefix)) = prefix

\* strings.Join.
RECURSIVE StringsJoin(_, _)
StringsJoin(elems, sep) ==
    IF elems = <<>> THEN <<>>
    ELSE IF Len(elems) = 1 THEN elems[1]
    ELSE elems[1] \o sep \o StringsJoin(Tail(elems), sep)

\* The index of the first line with the prefix, 0 when there is none.
FirstWithPrefix(lines, prefix) ==
    IF \E i \in DOMAIN lines : HasPrefix(lines[i], prefix)
    THEN CHOOSE i \in DOMAIN lines :
            /\ HasPrefix(lines[i], prefix)
            /\ \A j \in 1..(i - 1) : ~HasPrefix(lines[j], prefix)
    ELSE 0

\* An updateEnvFile that always appends the new line.
updateEnvFileAppends(input, key, value) ==
    LET newLine == key \o <<"=">> \o value
        lines   == SelectSeq(SplitLines(input), LAMBDA l : l # <<>>)
    IN StringsJoin(Append(lines, newLine), <<"\n">>) \o <<"\n">>

\* An updateEnvFile that keeps the empty lines of the old file.
updateEnvFileKeepsEmptyLines(input, key, value) ==
    LET newLine == key \o <<"=">> \o value
        lines   == SplitLines(input)
        i       == FirstWithPrefix(lines, key \o <<"=">>)
        out     == IF i # 0 THEN [lines EXCEPT ![i] = newLine] ELSE Append(lines, newLine)
    IN StringsJoin(out, <<"\n">>) \o <<"\n">>

(* updateEnvFile: the content written for the content read (empty when    *)
(* the file does not exist).                                               *)
updateEnvFile(input, key, value) ==
    LET newLine == key \o <<"=">> \o value
        lines   == SelectSeq(SplitLines(input), LAMBDA l : l # <<>>)
        i       == FirstWithPrefix(lines, key \o <<"=">>)
        out     == IF i # 0 THEN [lines EXCEPT ![i] = newLine] ELSE Append(lines, newLine)
    IN StringsJoin(out, <<"\n">>) \o <<"\n">>

\* The characters of a generated .env file: the key K, a value character
\* and the two characters the function looks at.
EnvChars == {"K", "=", "v", "\n"}

RECURSIVE StringsUpTo(_, _)
StringsUpTo(chars, n) ==
    IF n = 0 THEN { <<>> }
    ELSE LET shorter == StringsUpTo(chars, n - 1) IN
         shorter \cup { Append(t, c) : t \in shorter, c \in chars }

EnvFiles == StringsUpTo(EnvChars, MaxEnvLen)

\* The values written: lists of project paths joined with commas.
EnvValues == { <<>>, <<"v">>, <<"v", ",", "v">> }

EnvIdle ==
    /\ envFile = <<>>
    /\ envHist = <<>>
    /\ envArg = [key |-> <<>>, value |-> <<>>]

EnvInit ==
    /\ envFile \in EnvFiles
    /\ envHist = <<>>
    /\ \E v \in EnvValues : envArg = [key |-> <<"K">>, value |-> v]

\* One call updateEnvFile(key, value): read, rewrite, write.
EnvUpdate ==
    /\ Len(envHist) < MaxEnvCalls
    /\ envFile' = updateEnvFile(envFile, envArg.key, envArg.value)
    /\ envHist' = Append(envHist, envFile)
    /\ UNCHANGED envArg
    /\ UNCHANGED notEnvVars

-----------------------------------------------------------------------------
(* main of scripts/get_gitlab_repos.go: the set-up, the paging loop over   *)
(* Groups.ListGroupProjects and the write of REPO_URLS.                    *)

\* Most result pages the server has for the group.
MaxPages == 3

ProjectPaths == {"grp/a", "grp/b"}

\* A result page: one or two projects, each with its PathWithNamespace.
ResultPages ==
    { <<[PathWithNamespace |-> Str(a)]>> : a \in ProjectPaths } \cup
    { <<[PathWithNamespace |-> Str(a)], [PathWithNamespace |-> Str(b)]>> :
        a \in ProjectPaths, b \in ProjectPaths }

RECURSIVE PageLists(_)
PageLists(n) ==
    IF n = 0 THEN { <<>> }
    ELSE LET shorter == PageLists(n - 1) IN
         shorter \cup { Append(l, pg) : l \in shorter, pg \in ResultPages }

\* What the server holds: a group without projects has one empty page.
ServerStates == (PageLists(MaxPages) \ { <<>> }) \cup { << <<>> >> }

(* Groups.ListGroupProjects(groupID, opt): the projects of the page asked  *)
(* for (page 1 when opt.Page is 0) and the number of the next page, 0 on   *)
(* the last one.                                                           *)
ListGroupProjects(srv, page) ==
    LET n == IF page = 0 THEN 1 ELSE page IN
    [page     |-> n,
     projects |-> IF n \in DOMAIN srv THEN srv[n] ELSE <<>>,
     NextPage |-> IF n < Len(srv) THEN n + 1 ELSE 0]

\* The .env files the script starts from: none, one without REPO_URLS, one
\* with it.
ScriptEnvFiles ==
    { <<>>,
      <<"ENV", "=", "prod", "\n">>,
      <<"REPO_URLS", "=", "old", "\n", "ENV", "=", "prod", "\n">> }

ScriptIdle ==
    /\ serverPages = <<>>
    /\ spc = "idle"
    /\ optPage = 0
    /\ allProjects = <<>>
    /\ requested = <<>>

ScriptInit ==
    /\ serverPages \in ServerStates
    /\ spc = "start"
    /\ optPage = 0
    /\ allProjects = <<>>
    /\ requested = <<>>
    /\ envFile \in ScriptEnvFiles
    /\ envHist = <<>>
    /\ envArg = [key |-> <<>>, value |-> <<>>]

\* godotenv.Load, getGitLabToken, GITLAB_GROUP_ID, gitlab.NewClient: without
\* a token or a group id the script ends with log.Fatal.
ScriptStart ==
    /\ spc = "start"
    /\ \E configured \in BOOLEAN : spc' = IF configured THEN "list" ELSE "fatal"
    /\ UNCHANGED <<serverPages, optPage, allProjects, requested>>
    /\ UNCHANGED envVars
    /\ UNCHANGED notScriptVars

\* A paging step that stops after the first response.
ScriptListPageOnce ==
    /\ spc = "list"
    /\ \/ /\ spc' = "fatal"
          /\ UNCHANGED <<optPage, allProjects, requested>>
       \/ LET resp == ListGroupProjects(serverPages, optPage) IN
          /\ allProjects' = allProjects \o resp.projects
          /\ requested' = Append(requested, resp.page)
          /\ spc' = "write"
          /\ UNCHANGED optPage
    /\ UNCHANGED serverPages
    /\ UNCHANGED envVars
    /\ UNCHANGED notScriptVars

\* One turn of the paging loop: the request fails (log.Fatalf), or its
\* projects are appended and the loop ends when NextPage is 0.
ScriptListPage ==
    /\ spc = "list"
    /\ \/ /\ spc' = "fatal"
          /\ UNCHANGED <<optPage, allProjects, requested>>
       \/ LET resp == ListGroupProjects(serverPages, optPage) IN
          /\ allProjects' = allProjects \o resp.projects
          /\ requested' = Append(requested, resp.page)
          /\ IF resp.NextPage = 0
             THEN spc' = "write" /\ UNCHANGED optPage
             ELSE optPage' = resp.NextPage /\ UNCHANGED spc
    /\ UNCHANGED serverPages
    /\ UNCHANGED envVars
    /\ UNCHANGED notScriptVars

\* repoURLs, urlsStr and updateEnvFile("REPO_URLS", urlsStr); a .env that
\* cannot be read ends the script with log.Fatalf.
ScriptWrite ==
    /\ spc = "write"
    /\ \/ /\ spc' = "fatal"
          /\ UNCHANGED envVars
       \/ LET repoURLs == [i \in DOMAIN allProjects |-> allProjects[i].PathWithNamespace]
              urlsStr  == StringsJoin(repoURLs, <<",">>)
          IN
          /\ envFile' = updateEnvFile(envFile, Str("REPO_URLS"), urlsStr)
          /\ envHist' = Append(envHist, envFile)
          /\ envArg' = [key |-> Str("REPO_URLS"), value |-> urlsStr]
          /\ spc' = "done"
    /\ UNCHANGED <<serverPages, optPage, allProjects, requested>>
    /\ UNCHANGED notScriptVars

-----------------------------------------------------------------------------
(* The multi-document manifest package: UpdateResourceLimitsWithStruct and *)
(* updateDeploymentResourcesWithStruct.  The file is the sequence of the   *)
(* pieces strings.Split(content, "---") gives; a piece is blank, or text   *)
(* that is no YAML mapping, or a mapping decoded into a K8sManifest, whose *)
(* nested mappings are K8sManifest values as well.  A value that the code  *)
(* casts is absent, a mapping, or something else (null, a scalar, a list). *)

\* Most pieces of a generated manifest file.
MaxDocs == 2

\* A limits or requests value.
AbsentList == [state |-> "absent", vals |-> <<>>]

NotAMapList == [state |-> "other", vals |-> <<>>]

MapList(vals) == [state |-> "map", vals |-> vals]

\* A resources value.
AbsentResources == [state |-> "absent", limits |-> AbsentList, requests |-> AbsentList]

NotAMapResources == [state |-> "other", limits |-> AbsentList, requests |-> AbsentList]

MapResources(limits, requests) == [state |-> "map", limits |-> limits, requests |-> requests]

\* An element of a containers list: a mapping, or something else.
ContainerMap(resources) == [isMap |-> TRUE, name |-> "app", resources |-> resources]

NotAMapContainer == [isMap |-> FALSE, name |-> "", resources |-> AbsentResources]

\* Set a key of a mapping when the pointer is not nil.
SetIfNotNil(vals, key, ptr) == IF ptr = <<>> THEN vals ELSE (key :> ptr[1]) @@ vals

(* The body of the loop over the containers: an element that is no mapping *)
(* is skipped; resources, limits and requests are created when absent and  *)
(* cast without a check, which panics on a value that is no mapping.       *)
updateContainer(c, resourceConfig) ==
    IF ~c.isMap THEN [panicked |-> FALSE, container |-> c]
    ELSE IF c.resources.state = "other" THEN [panicked |-> TRUE, container |-> c]
    ELSE
    LET resources == IF c.resources.state = "absent"
                     THEN MapResources(AbsentList, AbsentList) ELSE c.resources
        limits    == IF resources.limits.state = "absent"
                     THEN MapList(<<>>) ELSE resources.limits
        requests  == IF resources.requests.state = "absent"
                     THEN MapList(<<>>) ELSE resources.requests
    IN
    IF limits.state = "other" \/ requests.state = "other"
    THEN [panicked |-> TRUE, container |-> c]
    ELSE
    LET newLimits ==
            SetIfNotNil(SetIfNotNil(SetIfNotNil(SetIfNotNil(limits.vals,
                "cpu", resourceConfig.CPU), "memory", resourceConfig.Memory),
                "cpu", resourceConfig.LimitsCPU), "memory", resourceConfig.LimitsMemory)
        newRequests ==
            SetIfNotNil(SetIfNotNil(SetIfNotNil(SetIfNotNil(requests.vals,
                "cpu", resourceConfig.CPURequest), "memory", resourceConfig.MemoryRequest),
                "cpu", resourceConfig.RequestsCPU), "memory", resourceConfig.RequestsMemory)
    IN [panicked |-> FALSE,
        container |-> [c EXCEPT !.resources =
                          MapResources(MapList(newLimits), MapList(newRequests))]]

(* updateDeploymentResourcesWithStruct: spec must be a mapping; the        *)
(* containers are spec.template.spec.containers when that is a list, else  *)
(* spec.containers when that is a list; every container is updated.        *)
updateDeploymentResourcesWithStruct(doc, resourceConfig) ==
    IF ~doc.specIsMap
    THEN [err |-> "deployment spec not found", panicked |-> FALSE, doc |-> doc]
    ELSE IF doc.template = <<>> /\ doc.direct = <<>>
    THEN [err |-> "containers not found in deployment", panicked |-> FALSE, doc |-> doc]
    ELSE
    LET at         == IF doc.template # <<>> THEN "template" ELSE "direct"
        containers == IF at = "template" THEN doc.template[1] ELSE doc.direct[1]
        updated    == [i \in DOMAIN containers |-> updateContainer(containers[i], resourceConfig)]
        new        == [i \in DOMAIN containers |-> updated[i].container]
    IN [err      |-> NoError,
        panicked |-> \E i \in DOMAIN containers : updated[i].panicked,
        doc      |-> IF at = "template" THEN [doc EXCEPT !.template = <<new>>]
                     ELSE [doc EXCEPT !.direct = <<new>>]]

\* yaml.Marshal of a decoded mapping: the same tree, without its comments.
MarshalManifest(doc) == [doc EXCEPT !.comments = FALSE]

(* The loop over the pieces from piece i on.  failAt is the piece whose    *)
(* yaml.Marshal fails (0 for none).  A blank piece is skipped, text that   *)
(* is no YAML mapping is kept as it is.                                    *)
RECURSIVE processDocuments(_, _, _, _, _)
processDocuments(docs, resourceConfig, i, failAt, updatedDocuments) ==
    IF i > Len(docs)
    THEN [err |-> NoError, panicked |-> FALSE, documents |-> updatedDocuments]
    ELSE IF docs[i].blank
    THEN processDocuments(docs, resourceConfig, i + 1, failAt, updatedDocuments)
    ELSE IF ~docs[i].yamlOk
    THEN processDocuments(docs, resourceConfig, i + 1, failAt, Append(updatedDocuments, docs[i]))
    ELSE
    LET u == IF docs[i].kind = "Deployment"
             THEN updateDeploymentResourcesWithStruct(docs[i], resourceConfig)
             ELSE [err |-> NoError, panicked |-> FALSE, doc |-> docs[i]]
    IN
    IF u.panicked
    THEN [err |-> NoError, panicked |-> TRUE, documents |-> updatedDocuments]
    ELSE IF u.err # NoError
    THEN [err |-> "failed to update resource limits: " \o u.err, panicked |-> FALSE,
          documents |-> updatedDocuments]
    ELSE IF failAt = i
    THEN [err |-> "failed to marshal updated manifest", panicked |-> FALSE,
          documents |-> updatedDocuments]
    ELSE processDocuments(docs, resourceConfig, i + 1, failAt,
                          Append(updatedDocuments, MarshalManifest(u.doc)))

(* UpdateResourceLimitsWithStruct: read, process every piece, write.       *)
(* written says how os.WriteFile ended: "ok", "unopened" (the file is as   *)
(* it was) or "truncated".                                                 *)
UpdateResourceLimitsWithStruct(docs, resourceConfig, readOk, failAt, written) ==
    IF ~readOk
    THEN [err |-> "failed to read manifest file", panicked |-> FALSE, file |-> docs]
    ELSE
    LET r == processDocuments(docs, resourceConfig, 1, failAt, <<>>) IN
    IF r.panicked THEN [err |-> NoError, panicked |-> TRUE, file |-> docs]
    ELSE IF r.err # NoError THEN [err |-> r.err, panicked |-> FALSE, file |-> docs]
    ELSE IF written = "ok" THEN [err |-> NoError, panicked |-> FALSE, file |-> r.documents]
    ELSE [err |-> "failed to write updated manifest", panicked |-> FALSE,
          file |-> IF written = "unopened" THEN docs ELSE <<>>]

\* The pieces of the generated files.
BlankPiece ==
    [blank |-> TRUE, yamlOk |-> FALSE, kind |-> "", specIsMap |-> FALSE,
     template |-> <<>>, direct |-> <<>>, comments |-> FALSE]

TextPiece == [BlankPiece EXCEPT !.blank = FALSE]

Manifest(kind, specIsMap, template, direct) ==
    [blank |-> FALSE, yamlOk |-> TRUE, kind |-> kind, specIsMap |-> specIsMap,
     template |-> template, direct |-> direct, comments |-> TRUE]

PlainContainer == ContainerMap(AbsentResources)

SizedContainer ==
    ContainerMap(MapResources(MapList(("cpu" :> "1") @@ ("memory" :> "1Gi")),
                              MapList(("cpu" :> "100m") @@ ("ephemeral-storage" :> "2Gi"))))

NullResourcesContainer == ContainerMap(NotAMapResources)

NullLimitsContainer == ContainerMap(MapResources(NotAMapList, AbsentList))

ManifestContainerLists ==
    { <<>>, <<PlainContainer>>, <<SizedContainer>>,
      <<PlainContainer, SizedContainer>>, <<NotAMapContainer, PlainContainer>>,
      <<NullResourcesContainer>>, <<PlainContainer, NullLimitsContainer>> }

Pieces ==
    { BlankPiece, TextPiece,
      Manifest("Service", TRUE, <<>>, <<>>),
      Manifest("StatefulSet", TRUE, << <<SizedContainer>> >>, <<>>),
      Manifest("Deployment", FALSE, <<>>, <<>>),
      Manifest("Deployment", TRUE, <<>>, <<>>),
      Manifest("Deployment", TRUE, <<>>, << <<PlainContainer>> >>),
      Manifest("Deployment", TRUE, << <<SizedContainer>> >>, << <<PlainContainer>> >>) }
    \cup { Manifest("Deployment", TRUE, <<l>>, <<>>) : l \in ManifestContainerLists }

RECURSIVE PieceLists(_)
PieceLists(n) ==
    IF n = 0 THEN { <<>> }
    ELSE LET shorter == PieceLists(n - 1) IN
         shorter \cup { Append(l, d) : l \in shorter, d \in Pieces }

NilConfig ==
    [CPU |-> <<>>, Memory |-> <<>>, CPURequest |-> <<>>, MemoryRequest |-> <<>>,
     RequestsCPU |-> <<>>, RequestsMemory |-> <<>>, LimitsCPU |-> <<>>,
     LimitsMemory |-> <<>>]

StructConfigs ==
    { NilConfig,
      [NilConfig EXCEPT !.CPU = <<"500m">>, !.Memory = <<"256Mi">>,
                        !.CPURequest = <<"250m">>, !.MemoryRequest = <<"128Mi">>],
      [NilConfig EXCEPT !.CPU = <<"500m">>, !.LimitsCPU = <<"2">>,
                        !.RequestsMemory = <<"64Mi">>] }

NoUpdate == [called |-> FALSE, err |-> NoError, panicked |-> FALSE, before |-> <<>>]

ManifestIdle ==
    /\ diskFile = <<>>
    /\ structConfig = NilConfig
    /\ updateResult = NoUpdate

ManifestInit ==
    /\ diskFile \in PieceLists(MaxDocs)
    /\ structConfig \in StructConfigs
    /\ updateResult = NoUpdate

\* One call UpdateResourceLimitsWithStruct(manifestPath, config).
UpdateManifest ==
    /\ ~updateResult.called
    /\ \E readOk \in BOOLEAN, failAt \in 0..Len(diskFile),
          written \in {"ok", "unopened", "truncated"} :
        LET r == UpdateResourceLimitsWithStruct(diskFile, structConfig, readOk,
                                                failAt, written) IN
        /\ diskFile' = r.file
        /\ updateResult' = [called |-> TRUE, err |-> r.err, panicked |-> r.panicked,
                            before |-> diskFile]
    /\ UNCHANGED structConfig
    /\ UNCHANGED notManifestVars

\* The collaborators and scripts while another part of the program runs.
ToolsIdle == GitIdle /\ EnvIdle /\ ScriptIdle /\ ManifestIdle

-----------------------------------------------------------------------------
(* The state machine: a file and a quantity set are given, Patch is called *)
(* on the file, and Patch is called again on its own output.               *)

Init ==
    /\ file \in Files
    /\ resCfg \in ResourceConfigs
    /\ result = NoResult
    /\ second = NoResult
    /\ phase = "ready"
    /\ ConfigIdle
    /\ MainIdle
    /\ ToolsIdle

PatchCall ==
    /\ phase = "ready"
    /\ result' = Patch(file, resCfg)
    /\ phase' = "patched"
    /\ UNCHANGED <<file, resCfg, second>>
    /\ UNCHANGED <<confVars, mainVars, toolVars>>

PatchAgain ==
    /\ phase = "patched"
    /\ result.err = NoError
    /\ second' = Patch(result.out[1], resCfg)
    /\ phase' = "repatched"
    /\ UNCHANGED <<file, resCfg, result>>
    /\ UNCHANGED <<confVars, mainVars, toolVars>>

Next == PatchCall \/ PatchAgain

\* updateResource(file, ResourceConfig{...}) in the single-file main.
UpdateResourceCall ==
    /\ phase = "ready"
    /\ result' = updateResource(file, resCfg)
    /\ phase' = "updated"
    /\ UNCHANGED <<file, resCfg, second>>
    /\ UNCHANGED <<confVars, mainVars, toolVars>>

Spec == Init /\ [][Next]_vars

\* The variables of the patcher while another part of the program runs.
PatchIdle ==
    /\ file = MalformedFile
    /\ resCfg = ResourceConfig(QtyStr(0, ""), QtyStr(0, "Ki"), QtyStr(0, ""), QtyStr(0, "Ki"))
    /\ result = NoResult
    /\ second = NoResult
    /\ phase = "idle"

\* The configuration loader on its own.
InitConfig == ConfigInit /\ PatchIdle /\ MainIdle /\ ToolsIdle

NextConfig == LoadConfig /\ UNCHANGED <<patchVars, mainVars, toolVars>>

SpecConfig == InitConfig /\ [][NextConfig]_vars

\* A run of main.
InitMain == MainInit /\ PatchIdle /\ ToolsIdle

NextMain ==
    \/ MainLoad
    \/ MainClone
    \/ MainGetFile
    \/ MainPatch
    \/ MainCreate
    \/ MainWrite
    \/ MainCommit

SpecMain == InitMain /\ [][NextMain]_vars

\* A run of main that takes its next step as long as it has one.
SpecMainFair == InitMain /\ [][NextMain]_vars /\ WF_vars(NextMain)

\* The git collaborator on its own.
InitGit == GitInit /\ PatchIdle /\ ConfigIdle /\ MainIdle /\ EnvIdle /\ ScriptIdle /\ ManifestIdle

NextGit ==
    \/ GitClone
    \/ GitWriteFile
    \/ GitGetFile
    \/ GitCommitAndPush

SpecGit == InitGit /\ [][NextGit]_vars

\* updateEnvFile on its own, called on a file and on its own output.
InitEnv == EnvInit /\ PatchIdle /\ ConfigIdle /\ MainIdle /\ GitIdle /\ ScriptIdle /\ ManifestIdle

NextEnv == EnvUpdate

SpecEnv == InitEnv /\ [][NextEnv]_vars

\* A run of the repository-fetching script; the program takes its next step
\* as long as it has one.
InitScript == ScriptInit /\ PatchIdle /\ ConfigIdle /\ MainIdle /\ GitIdle /\ ManifestIdle

NextScript ==
    \/ ScriptStart
    \/ ScriptListPage
    \/ ScriptWrite

SpecScript == InitScript /\ [][NextScript]_vars /\ WF_vars(NextScript)

\* updateResource of the single-file main, called on a file.
InitMonolith == Init

NextMonolith == UpdateResourceCall

SpecMonolith == InitMonolith /\ [][NextMonolith]_vars

\* The manifest package: one call on a file.
InitManifest ==
    ManifestInit /\ PatchIdle /\ ConfigIdle /\ MainIdle /\ GitIdle /\ EnvIdle /\ ScriptIdle

NextManifest == UpdateManifest

SpecManifest == InitManifest /\ [][NextManifest]_vars

-----------------------------------------------------------------------------
(* What the properties below read off a call: its input, its result and    *)
(* the container list of the kind's path, stated from the manifest layout  *)
(* (spec.containers for a Pod, spec.template.spec.containers otherwise).   *)

Succeeded(r) == r.err = NoError /\ Len(r.out) = 1

KindOf(f) == IF f.hasKind THEN f.kind ELSE ""

ListOf(f) == IF KindOf(f) = "Pod" THEN f.pod ELSE f.tmpl

StrayOf(f) == IF KindOf(f) = "Pod" THEN f.tmpl ELSE f.pod

\* The file parses, names a supported kind and fits that kind's typed shape.
ValidManifest(f) ==
    /\ f.syntaxOk /\ f.specIsMap
    /\ KindOf(f) \in SupportedKinds
    /\ \A i \in DOMAIN ListOf(f) : RawContainerValid(ListOf(f)[i])

\* Container 0 of an output holds exactly the four supplied quantities.
HasQuantities(c, cfg) ==
    /\ Len(c.resources) = 1
    /\ {"cpu", "memory"} \subseteq DOMAIN c.resources[1].requests
    /\ {"cpu", "memory"} \subseteq DOMAIN c.resources[1].limits
    /\ ParseQuantity(c.resources[1].requests["cpu"]) = cfg.CPURequest
    /\ ParseQuantity(c.resources[1].requests["memory"]) = cfg.MemRequest
    /\ ParseQuantity(c.resources[1].limits["cpu"]) = cfg.CPULimit
    /\ ParseQuantity(c.resources[1].limits["memory"]) = cfg.MemLimit

Called == phase \in {"patched", "repatched"}

\* C1: for each of the five kinds and each quantity set, Patch of a valid
\* manifest with exactly one container returns no error and an output whose
\* container carries exactly the supplied requests and limits for cpu and
\* memory, also when the input container had no resources key.
C1_PatchSetsQuantities ==
    (Called /\ ValidManifest(file) /\ Len(ListOf(file)) = 1) =>
        /\ Succeeded(result)
        /\ Len(ListOf(result.out[1])) = 1
        /\ HasQuantities(ListOf(result.out[1])[1], resCfg)

C1_Witness ==
    /\ phase = "patched" /\ ValidManifest(file) /\ file.kind = "Pod"
    /\ Len(ListOf(file)) = 1 /\ ListOf(file)[1].resources = <<>>
    /\ Succeeded(result)
    /\ ListOf(result.out[1])[1].resources[1].limits["memory"] = QtyStr(256, "Mi")

\* The parts of a file a reader of the document sees, with container 0's
\* resources left out and every other container's quantities taken by value.
ViewContainer(c, i) ==
    [name |-> c.name, image |-> c.image,
     resources |-> IF i = 1 THEN ZeroResources ELSE DecodeContainer(c).resources]

ViewList(l) == [i \in DOMAIN l |-> ViewContainer(l[i], i)]

DocumentView(f) ==
    [apiVersion |-> f.apiVersion, kind |-> KindOf(f), name |-> f.name,
     list |-> ViewList(ListOf(f)), stray |-> ViewList(StrayOf(f)), extra |-> f.extra]

C3_OnlyFirstContainerPatched ==
    (Called /\ ValidManifest(file) /\ Len(ListOf(file)) >= 2) =>
        /\ Succeeded(result)
        /\ result.warned
        /\ Len(ListOf(result.out[1])) = Len(ListOf(file))
        /\ HasQuantities(ListOf(result.out[1])[1], resCfg)
        /\ \A i \in 2..Len(ListOf(file)) :
              DecodeContainer(ListOf(result.out[1])[i]).resources
                  = DecodeContainer(ListOf(file)[i]).resources

C3_Witness ==
    /\ phase = "patched" /\ ValidManifest(file) /\ Len(ListOf(file)) = 2
    /\ ListOf(file)[2].resources # <<>>
    /\ ListOf(file)[2].resources[1].claims = <<"gpu">>
    /\ Succeeded(result) /\ result.warned
    /\ ListOf(result.out[1])[2].resources[1].claims = <<"gpu">>

\* C4: a call ends either with output and no error, container 0 carrying
\* the supplied quantity set, or with an error and no output.
Outcome(r, cfg) ==
    \/ /\ r.err = NoError /\ Len(r.out) = 1
       /\ ListOf(r.out[1]) # <<>>
       /\ HasQuantities(ListOf(r.out[1])[1], cfg)
    \/ /\ r.err # NoError /\ r.out = <<>>

C4_OutputOrError ==
    /\ Called => Outcome(result, resCfg)
    /\ phase = "repatched" => Outcome(second, resCfg)

C4_Witness ==
    /\ phase = "patched" /\ result.err # NoError /\ result.out = <<>>
    /\ ValidManifest(file) /\ ListOf(file) = <<>> /\ StrayOf(file) # <<>>

\* C5: a parseable manifest whose kind is absent or is not one of the five
\* supported kinds gets the error "unsupported kind: <kind>" and no output.
C5_UnsupportedKind ==
    (Called /\ file.syntaxOk /\ KindOf(file) \notin SupportedKinds) =>
        /\ result.err = "unsupported kind: " \o KindOf(file)
        /\ result.out = <<>>

C5_Witness ==
    /\ phase = "patched" /\ file.syntaxOk /\ file.hasKind /\ file.kind = "Service"
    /\ file.specIsMap /\ file.tmpl # <<>>
    /\ result.err = "unsupported kind: Service" /\ result.out = <<>>

\* C6: for a supported kind, an empty or missing container list gets the
\* error "no containers found" and no output, and container 0 is never
\* indexed.
C6_NoContainers ==
    (Called /\ ValidManifest(file) /\ ListOf(file) = <<>>) =>
        /\ result.err = "no containers found in " \o KindOf(file)
        /\ result.out = <<>>
        /\ \A i \in DOMAIN result.steps : result.steps[i] # "index0"

C6_Witness ==
    /\ phase = "patched" /\ ValidManifest(file) /\ file.kind = "Deployment"
    /\ ListOf(file) = <<>>
    /\ result.err = "no containers found in Deployment"

\* C7: bytes that do not parse get the resolver's "YAML unmarshal error"
\* and no output, and neither the dispatch table nor an extraction strategy
\* is consulted.
C7_MalformedDocument ==
    (Called /\ ~file.syntaxOk) =>
        /\ result.err = "YAML unmarshal error"
        /\ result.out = <<>>
        /\ result.steps = <<"getKind">>

C7_Witness ==
    /\ phase = "patched" /\ ~file.syntaxOk
    /\ result.err = "YAML unmarshal error" /\ result.steps = <<"getKind">>

\* C8: Patch is idempotent for a fixed quantity set: patching the output of
\* a successful Patch succeeds and returns that same document.
C8_Idempotent ==
    phase = "repatched" => (Succeeded(second) /\ second.out = result.out)

C8_Witness ==
    /\ phase = "repatched" /\ Succeeded(second)
    /\ Len(ListOf(file)) = 2
    /\ ListOf(file)[1].resources # <<>> /\ ListOf(file)[2].resources # <<>>
    /\ ListOf(file)[2].resources[1].limits # NoResourceList
    /\ ListOf(result.out[1])[2].resources[1].limits["memory"] = QtyStr(2, "Mi")

\* C9: after a successful Patch, requests and limits of container 0 have
\* exactly the keys cpu and memory; any other key of the input is gone.
C9_WholesaleReplace ==
    (Called /\ Succeeded(result)) =>
        LET r == ListOf(result.out[1])[1].resources[1] IN
        /\ DOMAIN r.requests = {"cpu", "memory"}
        /\ DOMAIN r.limits = {"cpu", "memory"}

C9_Witness ==
    /\ phase = "patched" /\ Succeeded(result)
    /\ ListOf(file)[1].resources # <<>>
    /\ "ephemeral-storage" \in DOMAIN ListOf(file)[1].resources[1].requests
    /\ "ephemeral-storage" \notin DOMAIN ListOf(result.out[1])[1].resources[1].requests

\* C10: a field of container 0's resources record other than requests and
\* limits (claims) has the same value after a successful Patch as before.
C10_ClaimsPreserved ==
    (Called /\ Succeeded(result)) =>
        DecodeContainer(ListOf(result.out[1])[1]).resources.claims
            = DecodeContainer(ListOf(file)[1]).resources.claims

\* C14: Patch goes past the kind dispatch exactly when the resolved kind is
\* one of the five table keys Deployment, DaemonSet, StatefulSet, Pod, Job;
\* the table has these five entries and no other; every other string (the
\* empty string, another letter case) gets the unsupported-kind error.
C14_DispatchOnFiveKinds ==
    LET five == {"Deployment", "DaemonSet", "StatefulSet", "Pod", "Job"} IN
    /\ DOMAIN extractorMap = five
    /\ (Called /\ file.syntaxOk) =>
          /\ (KindOf(file) \in five) <=>
                (\E i \in DOMAIN result.steps : result.steps[i] = "extract")
          /\ (KindOf(file) \notin five) =>
                result.err = "unsupported kind: " \o KindOf(file)

C14_Witness ==
    /\ phase = "patched" /\ file.syntaxOk /\ file.hasKind /\ file.kind = "deployment"
    /\ file.specIsMap /\ Len(file.tmpl) = 1 /\ RawContainerValid(file.tmpl[1])
    /\ result.err = "unsupported kind: deployment"
    /\ result.steps = <<"getKind", "lookup">>

\* C15: the list Patch works on is spec.template.spec.containers for
\* Deployment, DaemonSet, StatefulSet and Job and spec.containers for Pod; a
\* list at the other path is neither patched nor counted for the
\* no-containers check.
OwnList(f) ==
    IF KindOf(f) \in {"Deployment", "DaemonSet", "StatefulSet", "Job"} THEN f.tmpl ELSE f.pod

OtherList(f) ==
    IF KindOf(f) \in {"Deployment", "DaemonSet", "StatefulSet", "Job"} THEN f.pod ELSE f.tmpl

C15_ContainerPathByKind ==
    (/\ Called /\ file.syntaxOk /\ file.specIsMap
     /\ KindOf(file) \in {"Deployment", "DaemonSet", "StatefulSet", "Job", "Pod"}
     /\ \A i \in DOMAIN OwnList(file) : RawContainerValid(OwnList(file)[i])) =>
        /\ OwnList(file) = <<>> =>
              (result.err = "no containers found in " \o KindOf(file) /\ result.out = <<>>)
        /\ OwnList(file) # <<>> =>
              /\ Succeeded(result)
              /\ Len(OwnList(result.out[1])) = Len(OwnList(file))
              /\ HasQuantities(OwnList(result.out[1])[1], resCfg)
              /\ \A i \in DOMAIN OtherList(result.out[1]) :
                    ~HasQuantities(OtherList(result.out[1])[i], resCfg)

C15_Witness ==
    /\ phase = "patched" /\ file.syntaxOk /\ file.hasKind /\ file.kind = "Pod"
    /\ Len(file.pod) = 2 /\ Len(file.tmpl) = 1
    /\ Succeeded(result)
    /\ Len(result.out[1].pod) = 2
    /\ HasQuantities(result.out[1].pod[1], resCfg)

\* C16: the resolver reads the top-level kind only: for every file it can
\* decode it returns that field (empty when absent) and no error, whatever
\* the body holds; a supported kind whose body does not fit the kind's typed
\* shape is rejected at extraction, with "failed to extract containers" and
\* no output.
C16_ResolverReadsKindOnly ==
    (Called /\ file.syntaxOk) =>
        /\ getKind(file) = [kind |-> KindOf(file), err |-> NoError]
        /\ (/\ KindOf(file) \in SupportedKinds
            /\ (~file.specIsMap
                  \/ \E i \in DOMAIN ListOf(file) : ~RawContainerValid(ListOf(file)[i]))) =>
              /\ result.err = "failed to extract containers for kind " \o KindOf(file)
              /\ result.out = <<>>
              /\ result.steps = <<"getKind", "lookup", "extract">>

C16_Witness ==
    /\ phase = "patched" /\ file.syntaxOk /\ file.hasKind /\ file.kind = "Job"
    /\ ~file.specIsMap
    /\ result.err = "failed to extract containers for kind Job"
    /\ result.out = <<>>

\* What the environment holds for a variable: its value when it is set and
\* not empty, else the given default.
ValueOrDefault(key, default) ==
    IF key \in DOMAIN environ /\ Len(environ[key]) > 0 THEN environ[key] ELSE default

NotSeparator(c) == c # "," /\ c # " " /\ c # "\t"

RECURSIVE Flatten(_)
Flatten(l) == IF l = <<>> THEN <<>> ELSE Head(l) \o Flatten(Tail(l))

\* C19: Load returns, for each of ENV, BASE_URL, BRANCH, REPO_URLS,
\* CPU_LIMIT, MEM_LIMIT, CPU_REQUEST and MEM_REQUEST, the value of the
\* environment variable when it is set and non-empty and the fixed default
\* otherwise; a variable set to the empty string counts as unset.
C19_ValueOrDefault ==
    loaded =>
        /\ config.Env = ValueOrDefault("ENV", <<"__ENV__">>)
        /\ config.BaseURL = ValueOrDefault("BASE_URL", <<"__GIT_URL__">>)
        /\ config.Branch = ValueOrDefault("BRANCH", <<"__BRANCH__">>)
        /\ config.CPULimit = ValueOrDefault("CPU_LIMIT", <<[n |-> 20, suf |-> "m"]>>)
        /\ config.MemLimit = ValueOrDefault("MEM_LIMIT", <<[n |-> 32, suf |-> "Mi"]>>)
        /\ config.CPURequest = ValueOrDefault("CPU_REQUEST", <<[n |-> 10, suf |-> "m"]>>)
        /\ config.MemRequest = ValueOrDefault("MEM_REQUEST", <<[n |-> 16, suf |-> "Mi"]>>)
        /\ IF "REPO_URLS" \in DOMAIN environ /\ Len(environ["REPO_URLS"]) > 0
           THEN SelectSeq(Flatten(config.RepoURLs), NotSeparator)
                    = SelectSeq(environ["REPO_URLS"], NotSeparator)
           ELSE config.RepoURLs = << <<"__URL_1__">>, <<"__URL_2__">> >>

C19_Witness ==
    /\ loaded
    /\ "ENV" \in DOMAIN environ /\ environ["ENV"] = <<>> /\ config.Env = <<"__ENV__">>
    /\ "CPU_LIMIT" \in DOMAIN environ /\ config.CPULimit = <<[n |-> 100, suf |-> "m"]>>
    /\ "BRANCH" \notin DOMAIN environ /\ config.Branch = <<"__BRANCH__">>
    /\ "REPO_URLS" \in DOMAIN environ /\ environ["REPO_URLS"] = <<>>
    /\ Len(config.RepoURLs) = 2

\* C20: Load turns REPO_URLS into the list of its comma-separated fields in
\* order, each trimmed of surrounding whitespace; empty fields stay as empty
\* entries, so the list has one entry more than the value has commas.
C20_RepoURLFields ==
    LET v == ValueOrDefault("REPO_URLS", <<"__URL_1__", ",", "__URL_2__">>)
        l == config.RepoURLs
    IN loaded =>
        /\ Len(l) = Cardinality({i \in DOMAIN v : v[i] = ","}) + 1
        /\ \A k \in DOMAIN l :
              /\ \A i \in DOMAIN l[k] : l[k][i] # ","
              /\ l[k] # <<>> => (l[k][1] \notin {" ", "\t"} /\ l[k][Len(l[k])] \notin {" ", "\t"})
              /\ \E from \in 1..(Len(v) + 1) : SubSeq(v, from, from + Len(l[k]) - 1) = l[k]
        /\ SelectSeq(Flatten(l), NotSeparator) = SelectSeq(v, NotSeparator)

C20_Witness ==
    /\ loaded
    /\ "REPO_URLS" \in DOMAIN environ
    /\ environ["REPO_URLS"] = <<" ", "a", ",", ",">>
    /\ config.RepoURLs = << <<"a">>, <<>>, <<>> >>

\* The run of main has ended: the loop is through, or the program panicked.
Ended == pc \in {"done", "panic"}

StepRank(step) ==
    CASE step = "clone" -> 1 [] step = "read" -> 2 [] step = "patch" -> 3
      [] step = "create" -> 4 [] step = "write" -> 5 [] step = "commit" -> 6

\* C11: in the run loop every error of a per-repository step (clone, file
\* read, quantity parsing, patch, file create, file write, commit/push)
\* makes the run skip that repository and go on; no error aborts the run.
C11_NoErrorAbortsRun ==
    /\ pc # "panic"
    /\ pc = "done" => \A i \in 1..Len(config.RepoURLs) :
                         \E k \in DOMAIN log : log[k].repo = i /\ log[k].step = "clone"

\* C12: repositories are processed one after the other in configured order:
\* no step of repository i+1 comes before repository i has completed its
\* push or was abandoned on a failure, and a failure on repository i does
\* not keep repository i+1 from being processed.
C12_SequentialAndContinuing ==
    /\ \A k \in DOMAIN log : k > 1 =>
          \/ log[k].repo = log[k - 1].repo
          \/ /\ log[k].repo = log[k - 1].repo + 1
             /\ log[k].step = "clone"
             /\ (~log[k - 1].ok \/ log[k - 1].step = "commit")
    /\ Ended => \A i \in 1..Len(config.RepoURLs) :
                   \E k \in DOMAIN log : log[k].repo = i

\* C13: for every repository the steps come in the order clone, read,
\* patch, write, commit/push, each only after all earlier steps of that
\* repository succeeded; when Patch returns an error the file is not
\* written and nothing is committed or pushed for that repository.
C13_StepsInOrder ==
    /\ \A k \in DOMAIN log :
          \/ log[k].step = "clone" /\ (k > 1 => log[k - 1].repo < log[k].repo)
          \/ /\ k > 1
             /\ log[k - 1].repo = log[k].repo
             /\ log[k - 1].ok
             /\ StepRank(log[k - 1].step) + 1 = StepRank(log[k].step)
    /\ \A k \in DOMAIN log : (log[k].step = "patch" /\ ~log[k].ok) =>
          \A j \in DOMAIN log : (j > k /\ log[j].repo = log[k].repo) =>
              log[j].step \notin {"create", "write", "commit"}

C13_Witness ==
    /\ pc = "done" /\ Len(config.RepoURLs) = 2
    /\ \E k \in DOMAIN log : log[k].repo = 1 /\ log[k].step = "patch" /\ ~log[k].ok
    /\ \E k \in DOMAIN log : log[k].repo = 2 /\ log[k].step = "commit" /\ log[k].ok

\* C17 as stated: the quantity set is parsed once per run.
C17_ParsedOncePerRun == parses <= 1

\* C17 as amended: the quantity set is parsed from the loaded configuration
\* each time a repository reaches the patch step; the configuration never
\* changes after it is loaded, so every repository of a run is patched with
\* the same four quantities.
C17_SameQuantitiesEveryRepository ==
    \A k \in DOMAIN log : log[k].step = "patch" =>
        /\ log[k].quantities =
              << [CPURequest |-> ParseQuantity(config.CPURequest[1]),
                  MemRequest |-> ParseQuantity(config.MemRequest[1]),
                  CPULimit   |-> ParseQuantity(config.CPULimit[1]),
                  MemLimit   |-> ParseQuantity(config.MemLimit[1])] >>
        /\ \A j \in DOMAIN log : log[j].step = "patch" =>
              log[j].quantities = log[k].quantities

C17_Witness ==
    /\ pc = "done" /\ parses = 2
    /\ \E j, k \in DOMAIN log :
          /\ log[j].repo = 1 /\ log[j].step = "patch" /\ log[j].ok
          /\ log[k].repo = 2 /\ log[k].step = "patch" /\ log[k].ok
          /\ log[j].quantities = log[k].quantities

\* C18: for every repository the file read, the file overwritten and the
\* file staged are the one path overlays/<environment>/patches/
\* set_resources.yaml; no other path is written or staged.
C18_SingleTargetPath ==
    \A k \in DOMAIN log : log[k].step \in {"read", "create", "write", "commit"} =>
        log[k].path = <<"overlays", config.Env[1], "patches", "set_resources.yaml">>

C18_Witness ==
    /\ pc = "done"
    /\ config.Env = <<"prod">>
    /\ \E k \in DOMAIN log :
          /\ log[k].step = "commit" /\ log[k].ok
          /\ log[k].path = <<"overlays", "prod", "patches", "set_resources.yaml">>
          /\ k > 4 /\ log[k - 4].step = "read" /\ log[k - 4].path = log[k].path

-----------------------------------------------------------------------------
(* The git collaborator.                                                   *)

\* worktree.Add of the path fails on this clone: the file is not there.
StagingFails(c, path) == path \notin DOMAIN c.fs

\* Staging works and leaves nothing to commit.
CommitFails(c, path) ==
    /\ ~StagingFails(c, path)
    /\ Put(c.index, path, c.fs[path]) = c.head.tree

\* C21: after CommitAndPush succeeded for a file of a clone's working tree,
\* a fresh CloneAndWorktree of the same remote and branch followed by GetFile
\* of that path returns exactly the bytes the working tree held.
C21_PushedFileReadBack ==
    (gitOp.op = "commitAndPush" /\ gitOp.err = NoError) =>
        LET fresh == CloneAndWorktree(remote, gitOp.before.branch, TRUE) IN
        /\ fresh.err = NoError
        /\ GetFile(fresh.clone, gitOp.path) =
               [data |-> <<gitOp.before.fs[gitOp.path]>>, err |-> NoError]

\* A new file was written in a clone and pushed: the remote branch did not
\* have the path before.
C21_Witness ==
    /\ gitOp.op = "commitAndPush"
    /\ gitOp.err = NoError
    /\ gitOp.path \notin DOMAIN gitOp.remoteBefore[gitOp.before.branch].tree
    /\ gitOp.before.fs[gitOp.path] = "new content"

\* C22: CommitAndPush stages, commits and pushes in that order and stops at
\* the first failure: when staging fails it returns an error, makes no commit
\* and no push; when the commit fails it makes no push; the remote is
\* unchanged in both cases.
C22_StopsAtFirstFailure ==
    gitOp.op = "commitAndPush" =>
        LET c == gitOp.before
            after == clones[gitOp.name]
        IN
        /\ gitOp.calls \in {<<"add">>, <<"add", "commit">>, <<"add", "commit", "push">>}
        /\ StagingFails(c, gitOp.path) =>
              /\ gitOp.err # NoError
              /\ gitOp.calls = <<"add">>
              /\ after.head = c.head /\ commits = gitOp.commitsBefore
              /\ remote = gitOp.remoteBefore
        /\ CommitFails(c, gitOp.path) =>
              /\ gitOp.err # NoError
              /\ gitOp.calls = <<"add", "commit">>
              /\ after.head = c.head /\ commits = gitOp.commitsBefore
              /\ remote = gitOp.remoteBefore

\* Staging failed on a clone that holds a commit the remote does not have.
C22_Witness ==
    /\ gitOp.op = "commitAndPush"
    /\ StagingFails(gitOp.before, gitOp.path)
    /\ gitOp.before.head.id # gitOp.remoteBefore[gitOp.before.branch].id
    /\ gitOp.before.head.id # gitOp.before.base

\* The commit failed after a staging that worked.
C22_CommitFailed ==
    /\ gitOp.op = "commitAndPush"
    /\ CommitFails(gitOp.before, gitOp.path)
    /\ gitOp.before.fs # gitOp.before.head.tree

-----------------------------------------------------------------------------
(* updateEnvFile.                                                          *)

\* The content after the k-th call.
EnvAfter(k) == IF k < Len(envHist) THEN envHist[k + 1] ELSE envFile

\* The non-empty lines of a content.
EnvLines(text) == SelectSeq(SplitLines(text), LAMBDA l : l # <<>>)

\* The positions of the lines that start with 'key='.
KeyLines(lines) == { i \in DOMAIN lines : HasPrefix(lines[i], envArg.key \o <<"=">>) }

\* C27: updateEnvFile(key, value) replaces the first line starting with
\* 'key=' by 'key=value' in place and adds no line; without such a line it
\* appends 'key=value' as the last line; every other non-empty line is kept,
\* in order; empty lines are dropped; the output ends with exactly one
\* newline.
C27_RewritesKeyLine ==
    \A k \in DOMAIN envHist :
        LET old     == EnvLines(envHist[k])
            after   == EnvAfter(k)
            new     == SplitLines(after)
            newLine == envArg.key \o <<"=">> \o envArg.value
        IN
        /\ after[Len(after)] = "\n"
        /\ after[Len(after) - 1] # "\n"
        /\ new[Len(new)] = <<>>
        /\ \A i \in 1..(Len(new) - 1) : new[i] # <<>>
        /\ IF KeyLines(old) # {}
           THEN /\ Len(new) - 1 = Len(old)
                /\ \A i \in DOMAIN old :
                      new[i] = IF i \in KeyLines(old) /\ \A j \in KeyLines(old) : i <= j
                               THEN newLine ELSE old[i]
           ELSE /\ Len(new) - 1 = Len(old) + 1
                /\ new[Len(old) + 1] = newLine
                /\ \A i \in DOMAIN old : new[i] = old[i]

\* A file with an empty line and two lines of the key, rewritten: the first
\* is replaced, the second kept.
C27_Witness ==
    /\ Len(envHist) >= 1
    /\ envHist[1] = <<"K", "=", "\n", "\n", "K", "=">>
    /\ envArg.value = <<"v">>
    /\ EnvAfter(1) = <<"K", "=", "v", "\n", "K", "=", "\n">>

\* A file without the key: the line is appended after the kept lines.
C27_Appended ==
    /\ Len(envHist) >= 1
    /\ envHist[1] = <<"v", "\n", "\n", "K">>
    /\ envArg.value = <<"v">>
    /\ EnvAfter(1) = <<"v", "\n", "K", "\n", "K", "=", "v", "\n">>

\* C28: applying updateEnvFile(key, value) twice gives the content that
\* applying it once gives, and a file with at most one line starting with
\* 'key=' has exactly one such line after each call.
C28_IdempotentSingleKey ==
    /\ Len(envHist) >= 2 => EnvAfter(2) = EnvAfter(1)
    /\ \A k \in DOMAIN envHist :
          Cardinality(KeyLines(EnvLines(envHist[1]))) <= 1 =>
              Cardinality(KeyLines(EnvLines(EnvAfter(k)))) = 1

\* The first call changed a file that had no line of the key, and a second
\* call was made.
C28_Witness ==
    /\ Len(envHist) = 2
    /\ KeyLines(EnvLines(envHist[1])) = {}
    /\ envHist[1] # <<>>
    /\ envHist[2] # envHist[1]

-----------------------------------------------------------------------------
(* The repository-fetching script.                                         *)

\* The paths of the projects of every page of the server, in page order.
EveryProjectPath ==
    LET every == Flatten(serverPages) IN
    [i \in DOMAIN every |-> every[i].PathWithNamespace]

\* C23: the script requests pages until a response reports no next page,
\* appends each page's projects in order and then ends the paging loop, so
\* REPO_URLS is written with the comma-joined path of every project of every
\* page; every run ends.
C23_CollectsEveryPage ==
    /\ [](spc \in {"write", "done"} =>
            /\ requested = [i \in 1..Len(serverPages) |-> i]
            /\ allProjects = Flatten(serverPages))
    /\ [](spc = "done" =>
            LET lines == EnvLines(envFile)
                first == FirstWithPrefix(lines, <<"REPO_URLS", "=">>)
            IN /\ first # 0
               /\ lines[first] =
                     <<"REPO_URLS", "=">> \o StringsJoin(EveryProjectPath, <<",">>))
    /\ <>(spc \in {"done", "fatal"})

\* Three pages were fetched and REPO_URLS replaced the old line.
C23_Witness ==
    /\ spc = "done"
    /\ Len(serverPages) = 3
    /\ requested = <<1, 2, 3>>
    /\ Len(allProjects) >= 4
    /\ envHist = << <<"REPO_URLS", "=", "old", "\n", "ENV", "=", "prod", "\n">> >>

-----------------------------------------------------------------------------
(* updateResource of the single-file main.                                 *)

\* C24: for each of Deployment, DaemonSet, StatefulSet, Pod and Job and a
\* manifest with at least one container, updateResource returns the
\* serialization of the typed manifest whose container 0 it patched.
C24_ReturnsPatchedManifest ==
    (phase = "updated" /\ ValidManifest(file) /\ Len(ListOf(file)) >= 1) =>
        /\ Succeeded(result)
        /\ result.out[1] =
              Marshal(SetResources(
                  unmarshalK8sResource(file, extractorMap[KindOf(file)]).obj[1], resCfg))
        /\ KindOf(result.out[1]) = KindOf(file)
        /\ Len(ListOf(result.out[1])) = Len(ListOf(file))
        /\ HasQuantities(ListOf(result.out[1])[1], resCfg)

\* The same for the four kinds with a pod template.
C24_TemplateKindsPatched ==
    (phase = "updated" /\ ValidManifest(file) /\ Len(ListOf(file)) >= 1
        /\ KindOf(file) # "Pod") =>
        /\ Succeeded(result)
        /\ result.out[1] =
              Marshal(SetResources(
                  unmarshalK8sResource(file, extractorMap[KindOf(file)]).obj[1], resCfg))
        /\ HasQuantities(ListOf(result.out[1])[1], resCfg)

\* A Pod with a container: updateResource returns the document null.
C24_PodReturnsNull ==
    (phase = "updated" /\ ValidManifest(file) /\ Len(ListOf(file)) >= 1
        /\ KindOf(file) = "Pod") =>
        /\ Succeeded(result)
        /\ result.out[1] = NullDocument

-----------------------------------------------------------------------------
(* Termination of the run loop.                                            *)

\* The clone events of repository i in the log.
Attempts(i) == { k \in DOMAIN log : log[k].repo = i /\ log[k].step = "clone" }

\* C25: the run always terminates, and on termination every configured
\* repository entry has been attempted exactly once, in configured order,
\* whatever per-repository failures occurred; no step of a repository is
\* retried within the run.
C25_TerminatesEveryRepositoryOnce ==
    /\ <>Ended
    /\ [](Ended => \A i \in 1..Len(config.RepoURLs) : Cardinality(Attempts(i)) = 1)
    /\ [](\A k \in DOMAIN log : k > 1 => log[k - 1].repo <= log[k].repo)
    /\ [](\A j \in DOMAIN log : \A k \in DOMAIN log :
            (log[j].repo = log[k].repo /\ log[j].step = log[k].step) => j = k)

\* The same without the entries a panic leaves out: the run ends, no entry is
\* attempted twice or out of order, no step is retried, and a run that gets
\* through the loop has attempted every entry once.
C25_EndsWithoutRetry ==
    /\ <>Ended
    /\ [](pc = "done" => \A i \in 1..Len(config.RepoURLs) : Cardinality(Attempts(i)) = 1)
    /\ [](\A i \in 1..Len(config.RepoURLs) : Cardinality(Attempts(i)) <= 1)
    /\ [](\A k \in DOMAIN log : k > 1 => log[k - 1].repo <= log[k].repo)
    /\ [](\A j \in DOMAIN log : \A k \in DOMAIN log :
            (log[j].repo = log[k].repo /\ log[j].step = log[k].step) => j = k)

-----------------------------------------------------------------------------
(* The precedence of Patch's errors.                                       *)

\* The file does not fit the typed struct of its kind.
DecodeFails(f) ==
    \/ ~f.specIsMap
    \/ \E i \in DOMAIN ListOf(f) : ~RawContainerValid(ListOf(f)[i])

\* C26: Patch reports a malformed document before an unsupported kind, an
\* unsupported kind before an extraction failure, and an extraction failure
\* before missing containers; a parseable document of kind Service without
\* containers gets the unsupported-kind error.
C26_ErrorPrecedence ==
    Called =>
        IF ~file.syntaxOk
        THEN result.err = "YAML unmarshal error"
        ELSE IF KindOf(file) \notin SupportedKinds
        THEN result.err = "unsupported kind: " \o KindOf(file)
        ELSE IF DecodeFails(file)
        THEN result.err = "failed to extract containers for kind " \o KindOf(file)
        ELSE IF ListOf(file) = <<>>
        THEN result.err = "no containers found in " \o KindOf(file)
        ELSE result.err = NoError

\* A Service whose body fits no workload and has no containers anywhere.
C26_Witness ==
    /\ phase = "patched"
    /\ file.syntaxOk /\ file.hasKind /\ file.kind = "Service"
    /\ ~file.specIsMap /\ file.tmpl = <<>> /\ file.pod = <<>>
    /\ result.err = "unsupported kind: Service"

\* A Deployment that does not decode and has no containers.
C26_ExtractionBeforeCount ==
    /\ phase = "patched"
    /\ file.syntaxOk /\ file.hasKind /\ file.kind = "Deployment"
    /\ ~file.specIsMap /\ file.tmpl = <<>>
    /\ result.err = "failed to extract containers for kind Deployment"

-----------------------------------------------------------------------------
(* The multi-document manifest package.                                    *)

IsDeployment(doc) == ~doc.blank /\ doc.yamlOk /\ doc.kind = "Deployment"

\* The containers list the update works on.
ChosenList(doc) ==
    IF doc.template # <<>> THEN doc.template[1]
    ELSE IF doc.direct # <<>> THEN doc.direct[1] ELSE <<>>

\* The Deployment has no spec mapping or no containers list.
NothingToUpdate(doc) ==
    IsDeployment(doc) /\ (~doc.specIsMap \/ (doc.template = <<>> /\ doc.direct = <<>>))

\* A container whose resources, limits or requests is present and no mapping.
NotUpdatable(c) ==
    /\ c.isMap
    /\ \/ c.resources.state = "other"
       \/ /\ c.resources.state = "map"
          /\ (c.resources.limits.state = "other" \/ c.resources.requests.state = "other")

\* The update of the piece cannot be carried out.
UpdateFails(doc) ==
    \/ NothingToUpdate(doc)
    \/ IsDeployment(doc) /\ \E j \in DOMAIN ChosenList(doc) : NotUpdatable(ChosenList(doc)[j])

\* The configured value of a limit or a request, <<>> when none is.
Configured(list, key) ==
    LET c == structConfig IN
    CASE list = "limits" /\ key = "cpu" ->
            IF c.LimitsCPU # <<>> THEN c.LimitsCPU ELSE c.CPU
      [] list = "limits" /\ key = "memory" ->
            IF c.LimitsMemory # <<>> THEN c.LimitsMemory ELSE c.Memory
      [] list = "requests" /\ key = "cpu" ->
            IF c.RequestsCPU # <<>> THEN c.RequestsCPU ELSE c.CPURequest
      [] list = "requests" /\ key = "memory" ->
            IF c.RequestsMemory # <<>> THEN c.RequestsMemory ELSE c.MemoryRequest

\* The container has every configured limit and request.
HasConfigured(c) ==
    /\ c.resources.state = "map"
    /\ c.resources.limits.state = "map" /\ c.resources.requests.state = "map"
    /\ \A key \in {"cpu", "memory"} :
          /\ Configured("limits", key) # <<>> =>
                /\ key \in DOMAIN c.resources.limits.vals
                /\ c.resources.limits.vals[key] = Configured("limits", key)[1]
          /\ Configured("requests", key) # <<>> =>
                /\ key \in DOMAIN c.resources.requests.vals
                /\ c.resources.requests.vals[key] = Configured("requests", key)[1]

\* The pieces of the file before the call that are not blank.
KeptPieces == SelectSeq(updateResult.before, LAMBDA d : ~d.blank)

\* The call returned nil: the file holds every piece that is not blank, the
\* pieces that are no Deployment without resource changes, and every
\* container of every Deployment with the configured limits and requests.
SuccessUpdatesAll ==
    (updateResult.called /\ updateResult.err = NoError /\ ~updateResult.panicked) =>
        /\ Len(diskFile) = Len(KeptPieces)
        /\ \A i \in DOMAIN KeptPieces :
              LET old == KeptPieces[i]
                  new == diskFile[i]
              IN IF ~old.yamlOk THEN new = old
                 ELSE /\ new.kind = old.kind
                      /\ IF old.kind # "Deployment"
                         THEN new.template = old.template /\ new.direct = old.direct
                         ELSE /\ Len(ChosenList(new)) = Len(ChosenList(old))
                              /\ \A j \in DOMAIN ChosenList(old) :
                                    IF ChosenList(old)[j].isMap
                                    THEN HasConfigured(ChosenList(new)[j])
                                    ELSE ChosenList(new)[j] = ChosenList(old)[j]

\* The file changes only with a call that processed every piece.
WritesOnlyAfterAll ==
    (updateResult.called /\ diskFile # updateResult.before) =>
        /\ ~updateResult.panicked
        /\ updateResult.err \in {NoError, "failed to write updated manifest"}
        /\ \A i \in DOMAIN updateResult.before : ~UpdateFails(updateResult.before[i])

\* C29: UpdateResourceLimitsWithStruct writes the file only after every
\* document was processed without error: when updating a Deployment document
\* or re-serializing a document fails, it returns an error and the file is
\* as it was; on success the documents that are no Deployment have no
\* resource changes and every container of every Deployment document has
\* the configured limits and requests.
C29_ErrorOrAllUpdated ==
    /\ WritesOnlyAfterAll
    /\ (updateResult.called /\ \E i \in DOMAIN updateResult.before :
                                    UpdateFails(updateResult.before[i])) =>
          /\ ~updateResult.panicked
          /\ updateResult.err # NoError
          /\ diskFile = updateResult.before
    /\ (updateResult.called /\ updateResult.err = "failed to marshal updated manifest") =>
          diskFile = updateResult.before
    /\ SuccessUpdatesAll

\* The same, with a panic counted as a way for the call to fail.
C29_FailureLeavesFile ==
    /\ WritesOnlyAfterAll
    /\ (updateResult.called /\ \E i \in DOMAIN updateResult.before :
                                    UpdateFails(updateResult.before[i])) =>
          /\ updateResult.panicked \/ updateResult.err # NoError
          /\ diskFile = updateResult.before
    /\ (updateResult.called /\ updateResult.err = "failed to marshal updated manifest") =>
          diskFile = updateResult.before
    /\ SuccessUpdatesAll

\* A call that returned nil on a Service and a Deployment of two containers.
C29_BothContainersUpdated ==
    /\ updateResult.called /\ updateResult.err = NoError /\ ~updateResult.panicked
    /\ Len(updateResult.before) = 2
    /\ updateResult.before[1].kind = "StatefulSet"
    /\ updateResult.before[2].template = << <<PlainContainer, SizedContainer>> >>
    /\ structConfig.LimitsCPU = <<"2">>
    /\ diskFile[2].template[1][2].resources.limits.vals =
          ("cpu" :> "2") @@ ("memory" :> "1Gi")
    /\ diskFile[1].template = << <<SizedContainer>> >>

\* A call that panicked on a container whose resources is null.
C29_Panicked ==
    /\ updateResult.called /\ updateResult.panicked
    /\ \E i \in DOMAIN updateResult.before :
          updateResult.before[i].template = << <<NullResourcesContainer>> >>


====
